---- MODULE Spec2Model ----
(* emu8950.c (Y8950 emulator, version 0.14): the chip as a state machine.
   One action per public operation: OPL_new (NewChip, and step by step in
   SpecNew), OPL_set_rate, OPL_reset, OPL_writeReg, OPL_calc, OPL_writeIO,
   OPL_readIO, OPL_setMask, OPL_toggleMask.  Static helpers and macros are
   operators.
   The ADPCM unit is an external collaborator: the value of ADPCM_calc is an
   input of OPL_calc, a call of ADPCM_writeReg or ADPCM_reset is logged. *)
EXTENDS Integers, Sequences, FiniteSets, TLC

(* ------------------------- fixed-point widths ------------------------- *)
PG_BITS == 10
PG_WIDTH == 2^PG_BITS
DP_BITS == 19
DP_WIDTH == 2^DP_BITS
DP_BASE_BITS == DP_BITS - PG_BITS
DB_BITS == 9
DB_MUTE == 2^DB_BITS
EG_BITS == 9
DB2LIN_AMP_BITS == 11
SLOT_AMP_BITS == DB2LIN_AMP_BITS
EG_DP_BITS == 23
EG_DP_WIDTH == 2^EG_DP_BITS
PM_PG_BITS == 8
PM_DP_BITS == 16
PM_DP_WIDTH == 2^PM_DP_BITS
AM_PG_BITS == 8
AM_DP_BITS == 16
AM_DP_WIDTH == 2^AM_DP_BITS
PM_AMP_BITS == 8

(* enum OPL_EG_STATE *)
SETTLE == 0
ATTACK == 1
DECAY == 2
SUSHOLD == 3
SUSTINE == 4
RELEASE == 5
FINISH == 6

(* OPL_MASK_CH(x) and OPL_MASK_PCM, as bit numbers of the mask *)
OPL_MASK_CH(x) == 2^x
OPL_MASK_PCM_BIT == 14
OPL_MASK_PCM == 2^OPL_MASK_PCM_BIT

(* ------------------------------ C arithmetic -------------------------- *)
(* x >> b on a non-negative value, and the arithmetic shift gcc/clang apply
   to a negative int32_t: both are the floor of x / 2^b. *)
HIGHBITS(c, b) == c \div (2^b)
LOWBITS(c, b) == c % (2^b)
EXPAND_BITS(x, s, d) == x * 2^(d - s)
(* bit b of a non-negative value *)
Bit(x, b) == (x \div (2^b)) % 2
(* conversion of an int to int16_t (modulo 2^16, as every supported build does) *)
ToInt16(x) == ((x + 32768) % 65536) - 32768
(* ALIGN(d,SS,SD) is d * (int32_t)(SS / SD); the two uses in the render path
   have SS = SD = 0.1875 (EG_STEP, DB_STEP), the factor is 1; for the total
   level TL_STEP / EG_STEP = 0.75 / 0.1875 = 4, for the sustain level
   SL_STEP / EG_STEP = 3.0 / 0.1875 = 16. *)
ALIGN_EG_DB(d) == d * 1
ALIGN_TL_EG(d) == d * 4
ALIGN_SL_EG(d) == d * 16
Min(i, j) == IF i < j THEN i ELSE j

(* ------------------ tables that do not depend on the rate ------------- *)
(* AR_ADJUST_TABLE[0..511] as makeAdjustTable fills it: entry 0 is 1 << EG_BITS,
   entry i >= 1 is (uint32_t)(511 - 512 * log(i) / log(512)) >> 1, evaluated in
   IEEE double arithmetic as the C source does. *)
AdjustValues ==
  <<512, 255, 227, 210, 198, 189, 181, 175, 170, 165, 161, 157, 153, 150, 147, 144,
    141, 139, 136, 134, 132, 130, 128, 126, 125, 123, 121, 120, 118, 117, 115, 114,
    113, 112, 110, 109, 108, 107, 106, 105, 104, 103, 102, 101, 100, 99, 98, 97,
    96, 95, 94, 94, 93, 92, 91, 91, 90, 89, 88, 88, 87, 86, 86, 85,
    84, 84, 83, 82, 82, 81, 81, 80, 79, 79, 78, 78, 77, 77, 76, 76,
    75, 75, 74, 74, 73, 73, 72, 72, 71, 71, 70, 70, 69, 69, 69, 68,
    68, 67, 67, 66, 66, 66, 65, 65, 64, 64, 64, 63, 63, 62, 62, 62,
    61, 61, 61, 60, 60, 60, 59, 59, 59, 58, 58, 58, 57, 57, 57, 56,
    56, 56, 55, 55, 55, 54, 54, 54, 53, 53, 53, 53, 52, 52, 52, 51,
    51, 51, 50, 50, 50, 50, 49, 49, 49, 49, 48, 48, 48, 48, 47, 47,
    47, 46, 46, 46, 46, 45, 45, 45, 45, 44, 44, 44, 44, 44, 43, 43,
    43, 43, 42, 42, 42, 42, 41, 41, 41, 41, 41, 40, 40, 40, 40, 39,
    39, 39, 39, 39, 38, 38, 38, 38, 38, 37, 37, 37, 37, 37, 36, 36,
    36, 36, 36, 35, 35, 35, 35, 35, 34, 34, 34, 34, 34, 33, 33, 33,
    33, 33, 33, 32, 32, 32, 32, 32, 31, 31, 31, 31, 31, 31, 30, 30,
    30, 30, 30, 30, 29, 29, 29, 29, 29, 29, 28, 28, 28, 28, 28, 28,
    27, 27, 27, 27, 27, 27, 26, 26, 26, 26, 26, 26, 26, 25, 25, 25,
    25, 25, 25, 25, 24, 24, 24, 24, 24, 24, 23, 23, 23, 23, 23, 23,
    23, 22, 22, 22, 22, 22, 22, 22, 21, 21, 21, 21, 21, 21, 21, 21,
    20, 20, 20, 20, 20, 20, 20, 19, 19, 19, 19, 19, 19, 19, 19, 18,
    18, 18, 18, 18, 18, 18, 18, 17, 17, 17, 17, 17, 17, 17, 17, 16,
    16, 16, 16, 16, 16, 16, 16, 15, 15, 15, 15, 15, 15, 15, 15, 14,
    14, 14, 14, 14, 14, 14, 14, 14, 13, 13, 13, 13, 13, 13, 13, 13,
    13, 12, 12, 12, 12, 12, 12, 12, 12, 12, 11, 11, 11, 11, 11, 11,
    11, 11, 11, 10, 10, 10, 10, 10, 10, 10, 10, 10, 10, 9, 9, 9,
    9, 9, 9, 9, 9, 9, 9, 8, 8, 8, 8, 8, 8, 8, 8, 8,
    8, 7, 7, 7, 7, 7, 7, 7, 7, 7, 7, 6, 6, 6, 6, 6,
    6, 6, 6, 6, 6, 5, 5, 5, 5, 5, 5, 5, 5, 5, 5, 5,
    4, 4, 4, 4, 4, 4, 4, 4, 4, 4, 4, 3, 3, 3, 3, 3,
    3, 3, 3, 3, 3, 3, 3, 2, 2, 2, 2, 2, 2, 2, 2, 2,
    2, 2, 1, 1, 1, 1, 1, 1, 1, 1, 1, 1, 1, 1, 0, 0,
    0, 0, 0, 0, 0, 0, 0, 0, 0, 0, 0, 0, 0, 0, 0, 0>>

(* fullsintable[0..255], the quarter wave makeSinTable computes with
   lin2db(sin(2 * PI * i / PG_WIDTH)); Min(.., DB_MUTE - 1) caps entry 0. *)
SinQuarter ==
  <<511, 235, 203, 185, 171, 161, 152, 145, 139, 134, 129, 124, 120, 117, 113, 110,
    107, 104, 102, 99, 97, 95, 92, 90, 88, 87, 85, 83, 81, 80, 78, 77,
    75, 74, 72, 71, 70, 69, 67, 66, 65, 64, 63, 62, 61, 60, 59, 58,
    57, 56, 55, 54, 53, 52, 52, 51, 50, 49, 48, 48, 47, 46, 45, 45,
    44, 43, 43, 42, 41, 41, 40, 39, 39, 38, 38, 37, 37, 36, 35, 35,
    34, 34, 33, 33, 32, 32, 31, 31, 30, 30, 29, 29, 28, 28, 28, 27,
    27, 26, 26, 25, 25, 25, 24, 24, 23, 23, 23, 22, 22, 22, 21, 21,
    21, 20, 20, 20, 19, 19, 19, 18, 18, 18, 17, 17, 17, 16, 16, 16,
    16, 15, 15, 15, 14, 14, 14, 14, 13, 13, 13, 13, 12, 12, 12, 12,
    11, 11, 11, 11, 11, 10, 10, 10, 10, 9, 9, 9, 9, 9, 8, 8,
    8, 8, 8, 7, 7, 7, 7, 7, 7, 6, 6, 6, 6, 6, 6, 5,
    5, 5, 5, 5, 5, 5, 4, 4, 4, 4, 4, 4, 4, 4, 3, 3,
    3, 3, 3, 3, 3, 3, 2, 2, 2, 2, 2, 2, 2, 2, 2, 2,
    2, 1, 1, 1, 1, 1, 1, 1, 1, 1, 1, 1, 1, 1, 1, 0,
    0, 0, 0, 0, 0, 0, 0, 0, 0, 0, 0, 0, 0, 0, 0, 0,
    0, 0, 0, 0, 0, 0, 0, 0, 0, 0, 0, 0, 0, 0, 0, 0>>

(* DB2LIN_TABLE[0..511] as makeDB2LinTable fills it:
   (int32_t)(((1 << DB2LIN_AMP_BITS) - 1) * pow(10, -i * DB_STEP / 20)). *)
DbLinValues ==
  <<2047, 2003, 1960, 1918, 1877, 1837, 1798, 1759, 1722, 1685, 1649, 1614, 1579, 1546, 1513, 1480,
    1449, 1418, 1387, 1358, 1329, 1300, 1273, 1245, 1219, 1193, 1167, 1142, 1118, 1094, 1071, 1048,
    1025, 1004, 982, 961, 941, 920, 901, 882, 863, 844, 826, 809, 791, 774, 758, 742,
    726, 710, 695, 680, 666, 651, 638, 624, 611, 598, 585, 572, 560, 548, 536, 525,
    514, 503, 492, 481, 471, 461, 451, 442, 432, 423, 414, 405, 396, 388, 380, 371,
    364, 356, 348, 341, 333, 326, 319, 312, 306, 299, 293, 287, 280, 274, 269, 263,
    257, 252, 246, 241, 236, 231, 226, 221, 216, 212, 207, 203, 198, 194, 190, 186,
    182, 178, 174, 170, 167, 163, 160, 156, 153, 150, 147, 143, 140, 137, 134, 131,
    129, 126, 123, 121, 118, 115, 113, 111, 108, 106, 104, 101, 99, 97, 95, 93,
    91, 89, 87, 85, 83, 82, 80, 78, 76, 75, 73, 72, 70, 69, 67, 66,
    64, 63, 61, 60, 59, 58, 56, 55, 54, 53, 52, 51, 49, 48, 47, 46,
    45, 44, 43, 42, 42, 41, 40, 39, 38, 37, 36, 36, 35, 34, 33, 33,
    32, 31, 31, 30, 29, 29, 28, 27, 27, 26, 26, 25, 25, 24, 23, 23,
    22, 22, 21, 21, 21, 20, 20, 19, 19, 18, 18, 18, 17, 17, 16, 16,
    16, 15, 15, 15, 14, 14, 14, 13, 13, 13, 13, 12, 12, 12, 12, 11,
    11, 11, 11, 10, 10, 10, 10, 9, 9, 9, 9, 9, 8, 8, 8, 8,
    8, 7, 7, 7, 7, 7, 7, 7, 6, 6, 6, 6, 6, 6, 6, 5,
    5, 5, 5, 5, 5, 5, 5, 4, 4, 4, 4, 4, 4, 4, 4, 4,
    4, 3, 3, 3, 3, 3, 3, 3, 3, 3, 3, 3, 3, 3, 3, 2,
    2, 2, 2, 2, 2, 2, 2, 2, 2, 2, 2, 2, 2, 2, 2, 2,
    2, 2, 1, 1, 1, 1, 1, 1, 1, 1, 1, 1, 1, 1, 1, 1,
    1, 1, 1, 1, 1, 1, 1, 1, 1, 1, 1, 1, 1, 1, 1, 1,
    1, 1, 0, 0, 0, 0, 0, 0, 0, 0, 0, 0, 0, 0, 0, 0,
    0, 0, 0, 0, 0, 0, 0, 0, 0, 0, 0, 0, 0, 0, 0, 0,
    0, 0, 0, 0, 0, 0, 0, 0, 0, 0, 0, 0, 0, 0, 0, 0,
    0, 0, 0, 0, 0, 0, 0, 0, 0, 0, 0, 0, 0, 0, 0, 0,
    0, 0, 0, 0, 0, 0, 0, 0, 0, 0, 0, 0, 0, 0, 0, 0,
    0, 0, 0, 0, 0, 0, 0, 0, 0, 0, 0, 0, 0, 0, 0, 0,
    0, 0, 0, 0, 0, 0, 0, 0, 0, 0, 0, 0, 0, 0, 0, 0,
    0, 0, 0, 0, 0, 0, 0, 0, 0, 0, 0, 0, 0, 0, 0, 0,
    0, 0, 0, 0, 0, 0, 0, 0, 0, 0, 0, 0, 0, 0, 0, 0,
    0, 0, 0, 0, 0, 0, 0, 0, 0, 0, 0, 0, 0, 0, 0, 0>>

(* pmtable[0][0..255] and pmtable[1][0..255] as makePmTable fills them:
   (int32_t)(PM_AMP * pow(2, depth * sin(2 * PI * i / PM_PG_WIDTH) / 1200)). *)
PmValues0 ==
  <<256, 256, 256, 256, 256, 256, 256, 256, 256, 256, 256, 256, 256, 256, 256, 256,
    256, 256, 256, 256, 256, 256, 256, 256, 256, 256, 256, 256, 256, 256, 256, 256,
    256, 256, 256, 256, 256, 256, 256, 256, 256, 256, 256, 256, 256, 256, 256, 256,
    256, 256, 256, 256, 256, 256, 256, 256, 256, 257, 257, 257, 257, 257, 257, 257,
    257, 257, 257, 257, 257, 257, 257, 257, 256, 256, 256, 256, 256, 256, 256, 256,
    256, 256, 256, 256, 256, 256, 256, 256, 256, 256, 256, 256, 256, 256, 256, 256,
    256, 256, 256, 256, 256, 256, 256, 256, 256, 256, 256, 256, 256, 256, 256, 256,
    256, 256, 256, 256, 256, 256, 256, 256, 256, 256, 256, 256, 256, 256, 256, 256,
    256, 255, 255, 255, 255, 255, 255, 255, 255, 255, 255, 255, 255, 255, 255, 255,
    255, 255, 255, 255, 255, 255, 255, 255, 255, 255, 255, 255, 255, 255, 255, 255,
    255, 255, 255, 255, 255, 255, 255, 255, 255, 255, 255, 255, 255, 255, 255, 255,
    255, 255, 255, 255, 255, 255, 255, 255, 255, 255, 254, 254, 254, 254, 254, 254,
    254, 254, 254, 254, 254, 254, 254, 255, 255, 255, 255, 255, 255, 255, 255, 255,
    255, 255, 255, 255, 255, 255, 255, 255, 255, 255, 255, 255, 255, 255, 255, 255,
    255, 255, 255, 255, 255, 255, 255, 255, 255, 255, 255, 255, 255, 255, 255, 255,
    255, 255, 255, 255, 255, 255, 255, 255, 255, 255, 255, 255, 255, 255, 255, 255>>

PmValues1 ==
  <<256, 256, 256, 256, 256, 256, 256, 256, 256, 256, 256, 256, 256, 256, 256, 256,
    256, 256, 256, 256, 256, 257, 257, 257, 257, 257, 257, 257, 257, 257, 257, 257,
    257, 257, 257, 257, 257, 257, 257, 257, 257, 257, 257, 257, 257, 257, 257, 257,
    257, 257, 257, 257, 257, 257, 257, 257, 258, 258, 258, 258, 258, 258, 258, 258,
    258, 258, 258, 258, 258, 258, 258, 258, 258, 257, 257, 257, 257, 257, 257, 257,
    257, 257, 257, 257, 257, 257, 257, 257, 257, 257, 257, 257, 257, 257, 257, 257,
    257, 257, 257, 257, 257, 257, 257, 257, 257, 257, 257, 257, 256, 256, 256, 256,
    256, 256, 256, 256, 256, 256, 256, 256, 256, 256, 256, 256, 256, 256, 256, 256,
    256, 255, 255, 255, 255, 255, 255, 255, 255, 255, 255, 255, 255, 255, 255, 255,
    255, 255, 255, 255, 255, 254, 254, 254, 254, 254, 254, 254, 254, 254, 254, 254,
    254, 254, 254, 254, 254, 254, 254, 254, 254, 254, 254, 254, 254, 254, 254, 254,
    254, 254, 254, 254, 254, 254, 254, 254, 254, 254, 253, 253, 253, 253, 253, 253,
    253, 253, 253, 253, 253, 253, 253, 254, 254, 254, 254, 254, 254, 254, 254, 254,
    254, 254, 254, 254, 254, 254, 254, 254, 254, 254, 254, 254, 254, 254, 254, 254,
    254, 254, 254, 254, 254, 254, 254, 254, 254, 254, 254, 254, 255, 255, 255, 255,
    255, 255, 255, 255, 255, 255, 255, 255, 255, 255, 255, 255, 255, 255, 255, 255>>

(* amtable[0][0..255] and amtable[1][0..255] as makeAmTable fills them:
   (int32_t)(depth / 2 / DB_STEP * (1.0 + sin(2 * PI * i / PM_PG_WIDTH))). *)
AmValues0 ==
  <<2, 2, 2, 2, 2, 2, 3, 3, 3, 3, 3, 3, 3, 3, 3, 3,
    3, 3, 3, 3, 3, 3, 4, 4, 4, 4, 4, 4, 4, 4, 4, 4,
    4, 4, 4, 4, 4, 4, 4, 4, 4, 4, 4, 4, 5, 5, 5, 5,
    5, 5, 5, 5, 5, 5, 5, 5, 5, 5, 5, 5, 5, 5, 5, 5,
    5, 5, 5, 5, 5, 5, 5, 5, 5, 5, 5, 5, 5, 5, 5, 5,
    5, 5, 5, 5, 5, 4, 4, 4, 4, 4, 4, 4, 4, 4, 4, 4,
    4, 4, 4, 4, 4, 4, 4, 4, 4, 4, 4, 3, 3, 3, 3, 3,
    3, 3, 3, 3, 3, 3, 3, 3, 3, 3, 3, 2, 2, 2, 2, 2,
    2, 2, 2, 2, 2, 2, 2, 2, 2, 2, 2, 1, 1, 1, 1, 1,
    1, 1, 1, 1, 1, 1, 1, 1, 1, 1, 1, 1, 0, 0, 0, 0,
    0, 0, 0, 0, 0, 0, 0, 0, 0, 0, 0, 0, 0, 0, 0, 0,
    0, 0, 0, 0, 0, 0, 0, 0, 0, 0, 0, 0, 0, 0, 0, 0,
    0, 0, 0, 0, 0, 0, 0, 0, 0, 0, 0, 0, 0, 0, 0, 0,
    0, 0, 0, 0, 0, 0, 0, 0, 0, 0, 0, 0, 0, 0, 0, 0,
    0, 0, 0, 0, 0, 1, 1, 1, 1, 1, 1, 1, 1, 1, 1, 1,
    1, 1, 1, 1, 1, 1, 2, 2, 2, 2, 2, 2, 2, 2, 2, 2>>

AmValues1 ==
  <<12, 13, 13, 13, 14, 14, 14, 14, 15, 15, 15, 16, 16, 16, 17, 17,
    17, 17, 18, 18, 18, 19, 19, 19, 19, 20, 20, 20, 20, 21, 21, 21,
    21, 22, 22, 22, 22, 22, 23, 23, 23, 23, 23, 23, 24, 24, 24, 24,
    24, 24, 24, 24, 25, 25, 25, 25, 25, 25, 25, 25, 25, 25, 25, 25,
    25, 25, 25, 25, 25, 25, 25, 25, 25, 25, 25, 25, 25, 24, 24, 24,
    24, 24, 24, 24, 24, 23, 23, 23, 23, 23, 23, 22, 22, 22, 22, 22,
    21, 21, 21, 21, 20, 20, 20, 20, 19, 19, 19, 19, 18, 18, 18, 17,
    17, 17, 17, 16, 16, 16, 15, 15, 15, 14, 14, 14, 14, 13, 13, 13,
    12, 12, 12, 11, 11, 11, 10, 10, 10, 9, 9, 9, 9, 8, 8, 8,
    7, 7, 7, 7, 6, 6, 6, 5, 5, 5, 5, 4, 4, 4, 4, 3,
    3, 3, 3, 3, 2, 2, 2, 2, 2, 1, 1, 1, 1, 1, 1, 1,
    0, 0, 0, 0, 0, 0, 0, 0, 0, 0, 0, 0, 0, 0, 0, 0,
    0, 0, 0, 0, 0, 0, 0, 0, 0, 0, 0, 0, 0, 0, 0, 0,
    0, 1, 1, 1, 1, 1, 1, 1, 2, 2, 2, 2, 2, 3, 3, 3,
    3, 3, 4, 4, 4, 4, 5, 5, 5, 5, 6, 6, 6, 7, 7, 7,
    7, 8, 8, 8, 9, 9, 9, 9, 10, 10, 10, 11, 11, 11, 12, 12>>

AR_ADJUST_TABLE(i) == AdjustValues[i + 1]

(* makeSinTable: the second quarter mirrors the first, the second half is the
   first half offset by DB_MUTE + DB_MUTE (the negative half of DB2LIN_TABLE). *)
fullsintable(i) ==
  IF i < PG_WIDTH \div 4 THEN SinQuarter[i + 1]
  ELSE IF i < PG_WIDTH \div 2 THEN SinQuarter[(PG_WIDTH \div 2 - 1 - i) + 1]
  ELSE IF i < 3 * (PG_WIDTH \div 4) THEN DB_MUTE + DB_MUTE + SinQuarter[(i - PG_WIDTH \div 2) + 1]
  ELSE DB_MUTE + DB_MUTE + SinQuarter[(PG_WIDTH - 1 - i) + 1]

(* makeDB2LinTable: entries DB_MUTE .. 2*DB_MUTE-1 are 0, the upper half is
   the negated lower half. *)
DB2LIN_TABLE(i) ==
  IF i < DB_MUTE THEN DbLinValues[i + 1]
  ELSE IF i < DB_MUTE + DB_MUTE THEN 0
  ELSE IF i < 3 * DB_MUTE THEN 0 - DbLinValues[(i - DB_MUTE - DB_MUTE) + 1]
  ELSE 0

pmtable(m, i) == IF m = 0 THEN PmValues0[i + 1] ELSE PmValues1[i + 1]
amtable(m, i) == IF m = 0 THEN AmValues0[i + 1] ELSE AmValues1[i + 1]

(* makeTllTable: kltable holds dB2(x) = (uint32_t)(x * 2) of the sixteen
   key-scale attenuations. *)
kltable == <<0, 18, 24, 27, 30, 32, 33, 35, 36, 37, 38, 39, 39, 40, 41, 42>>
tllTable(fnum, block, TL, KL) ==
  LET tmp == kltable[fnum + 1] - 6 * (7 - block)
  IN  IF KL = 0 \/ tmp <= 0 THEN ALIGN_TL_EG(TL)
      ELSE (HIGHBITS(tmp, 3 - KL) * 16) \div 3 + ALIGN_TL_EG(TL)

(* makeRksTable *)
rksTable(fnum9, block, KR) ==
  IF KR # 0 THEN block * 2 + fnum9 ELSE HIGHBITS(block, 1)

(* S2E(x) of calc_envelope: the sustain levels as envelope phases *)
SLdB == <<0, 3, 6, 9, 12, 15, 18, 21, 24, 27, 30, 33, 36, 39, 42, 93>>
SL(i) == EXPAND_BITS(ALIGN_SL_EG(SLdB[i + 1] \div 3), EG_BITS, EG_DP_BITS)

(* --------------------- tables that depend on the rate ------------------ *)
(* A table bank t = [clk, rate] names the clock and rate the rate-dependent
   tables were last built from (the statics clk and rate at the time of
   internal_refresh).
   rate_adjust(x) is (uint32_t)((double)x * clk / 72 / rate + 0.5): the
   nearest integer to x * clk / (72 * rate), written here with the quotient
   and remainder of clk by 72 * rate so that no intermediate leaves 32 bits. *)
RECURSIVE MulDiv(_, _, _)
(* quotient and remainder of x * r by d, for r < d, by halving x *)
MulDiv(x, r, d) ==
  IF x = 0 THEN [q |-> 0, r |-> 0]
  ELSE LET h == MulDiv(x \div 2, r, d)
           m == 2 * h.r + (x % 2) * r
       IN  [q |-> 2 * h.q + m \div d, r |-> m % d]

(* the nearest integer to a quotient given as [q, r] with divisor d *)
Nearest(h, d) == h.q + (IF 2 * h.r >= d THEN 1 ELSE 0)

rate_adjust(x, t) ==
  IF t.clk % (72 * t.rate) = 0 THEN x * (t.clk \div (72 * t.rate))
  ELSE x * (t.clk \div (72 * t.rate))
       + Nearest(MulDiv(x, t.clk % (72 * t.rate), 72 * t.rate), 72 * t.rate)

mltable == <<1, 2, 4, 6, 8, 10, 12, 14, 16, 18, 20, 20, 24, 24, 30, 30>>
(* makeDphaseTable *)
dphaseTable(t, fnum, block, ML) ==
  rate_adjust(HIGHBITS((fnum * mltable[ML + 1]) * 2^block, 21 - DP_BITS), t)

(* makeDphaseARTable *)
dphaseARTable(t, AR, Rks) ==
  LET RM == Min(AR + HIGHBITS(Rks, 2), 15)
      RL == Rks % 4
  IN  IF AR = 0 THEN 0
      ELSE IF AR = 15 THEN EG_DP_WIDTH
      ELSE rate_adjust((3 * (RL + 4)) * 2^(RM + 1), t)

(* makeDphaseDRTable *)
dphaseDRTable(t, DR, Rks) ==
  LET RM == Min(DR + HIGHBITS(Rks, 2), 15)
      RL == Rks % 4
  IN  IF DR = 0 THEN 0
      ELSE rate_adjust((RL + 4) * 2^(RM - 1), t)

(* internal_refresh: pm_dphase = rate_adjust(PM_SPEED * PM_DP_WIDTH / (clk/72))
   with PM_SPEED = 6.4, am_dphase likewise with AM_SPEED = 3.7.  For a clock
   that is a multiple of 72 (the model's clocks are) the value is the nearest
   integer to 6.4 * 65536 / rate, resp. 3.7 * 65536 / rate. *)
pm_dphase(t) == (4194304 + 5 * t.rate) \div (10 * t.rate)
am_dphase(t) == (2424832 + 5 * t.rate) \div (10 * t.rate)

(* ------------------------------ operators ------------------------------ *)
Slots == 0..17
Channels == 0..8
(* opl->slot[i*2] is ch[i]->mod, opl->slot[i*2+1] is ch[i]->car (OPL_new) *)
MOD(x) == 2 * x
CAR(x) == 2 * x + 1

(* calc_eg_dphase with the release taken from the patch's RR whatever its
   envelope-type flag *)
calc_eg_dphase_releaseByRR(slot, t) ==
  CASE slot.eg_mode = ATTACK -> dphaseARTable(t, slot.patch.AR, slot.rks)
    [] slot.eg_mode = DECAY -> dphaseDRTable(t, slot.patch.DR, slot.rks)
    [] slot.eg_mode = SUSTINE -> dphaseDRTable(t, slot.patch.RR, slot.rks)
    [] slot.eg_mode = RELEASE -> dphaseDRTable(t, slot.patch.RR, slot.rks)
    [] OTHER -> 0

calc_eg_dphase(slot, t) ==
  CASE slot.eg_mode = ATTACK -> dphaseARTable(t, slot.patch.AR, slot.rks)
    [] slot.eg_mode = DECAY -> dphaseDRTable(t, slot.patch.DR, slot.rks)
    [] slot.eg_mode = SUSHOLD -> 0
    [] slot.eg_mode = SUSTINE -> dphaseDRTable(t, slot.patch.RR, slot.rks)
    [] slot.eg_mode = RELEASE ->
         IF slot.patch.EG # 0 THEN dphaseDRTable(t, slot.patch.RR, slot.rks)
         ELSE dphaseDRTable(t, 7, slot.rks)
    [] slot.eg_mode = FINISH -> 0
    [] OTHER -> 0

UPDATE_PG(S, t) ==
  [S EXCEPT !.dphase = dphaseTable(t, S.fnum, S.block, S.patch.ML)]
UPDATE_TLL(S) ==
  [S EXCEPT !.tll = tllTable(HIGHBITS(S.fnum, 6), S.block, S.patch.TL, S.patch.KL)]
UPDATE_RKS(S) ==
  [S EXCEPT !.rks = rksTable(HIGHBITS(S.fnum, 9), S.block, S.patch.KR)]
UPDATE_EG(S, t) ==
  [S EXCEPT !.eg_dphase = calc_eg_dphase(S, t)]
(* UPDATE_ALL without its last step, UPDATE_EG *)
UPDATE_ALL_withoutEG(S, t) ==
  UPDATE_RKS(UPDATE_TLL(UPDATE_PG(S, t)))

UPDATE_ALL(S, t) ==
  UPDATE_EG(UPDATE_RKS(UPDATE_TLL(UPDATE_PG(S, t))), t)

(* slotOn without the restart of the envelope phase *)
slotOn_keepEnvelope(slot) ==
  [slot EXCEPT !.eg_mode = ATTACK, !.phase = 0]

slotOn(slot) ==
  [slot EXCEPT !.eg_mode = ATTACK, !.phase = 0, !.eg_phase = 0]

(* slotOff without the conversion of the attack position *)
slotOff_keepPhase(slot) ==
  [slot EXCEPT !.eg_mode = RELEASE]

slotOff(slot) ==
  [slot EXCEPT
     !.eg_phase =
        IF slot.eg_mode = ATTACK
        THEN EXPAND_BITS(AR_ADJUST_TABLE(HIGHBITS(slot.eg_phase, EG_DP_BITS - EG_BITS)),
                         EG_BITS, EG_DP_BITS)
        ELSE @,
     !.eg_mode = RELEASE]

(* The chip value o carries, beside the fields of OPL, the log o.calls of the
   key events and collaborator calls the current operation made. *)
keyOn(o, i) ==
  [o EXCEPT !.slot[MOD(i)] = slotOn(@),
            !.slot[CAR(i)] = slotOn(@),
            !.ch[i].key_status = 1,
            !.calls = Append(@, <<"keyOn", i>>)]

keyOff(o, i) ==
  [o EXCEPT !.slot[MOD(i)] = slotOff(@),
            !.slot[CAR(i)] = slotOff(@),
            !.ch[i].key_status = 0,
            !.calls = Append(@, <<"keyOff", i>>)]

setFnumber(o, c, fnum) ==
  [o EXCEPT !.slot[CAR(c)].fnum = fnum, !.slot[MOD(c)].fnum = fnum]

setBlock(o, c, block) ==
  [o EXCEPT !.slot[CAR(c)].block = block, !.slot[MOD(c)].block = block]

ZeroPatch ==
  [TL |-> 0, FB |-> 0, EG |-> 0, ML |-> 0, AR |-> 0, DR |-> 0, SL |-> 0,
   RR |-> 0, KR |-> 0, KL |-> 0, AM |-> 0, PM |-> 0, WF |-> 0]

(* OPL_SLOT_reset: every modelled field of the slot is overwritten *)
OPL_SLOT_reset(t) ==
  UPDATE_ALL([phase |-> 0, dphase |-> 0, output |-> [k \in 0..1 |-> 0], feedback |-> 0,
              eg_mode |-> FINISH, eg_phase |-> EG_DP_WIDTH, eg_dphase |-> 0,
              rks |-> 0, tll |-> 0, fnum |-> 0, block |-> 0, pgout |-> 0,
              egout |-> 0, patch |-> ZeroPatch], t)

(* OPL_CH_reset, for the channel's own fields *)
OPL_CH_reset == [key_status |-> 0, alg |-> 0]

(* An OPL * that is no chip: NULL is the null pointer, the failure result of
   OPL_new; ABORTED stands for the process after an access outside an array
   has been trapped (what a bounds-checked build does with such an access). *)
NULL == [null |-> TRUE]
ABORTED == [aborted |-> TRUE]
IsChip(o) == "slot" \in DOMAIN o

(* OPL_reset; the mask, the address latch and the statics are not touched, and
   memset(opl->reg, 0, sizeof(opl->reg)) clears the 255 bytes of the array *)
OPL_reset(o, t) ==
  IF o = NULL THEN o
  ELSE
  [o EXCEPT !.slot = [s \in Slots |-> OPL_SLOT_reset(t)],
            !.ch = [c \in Channels |-> OPL_CH_reset],
            !.out = 0,
            !.rhythm_mode = 0, !.am_mode = 0, !.pm_mode = 0,
            !.pm_phase = 0, !.am_phase = 0,
            !.noise_seed = 65535,
            !.reg = [r \in DOMAIN o.reg |-> 0],
            !.slot_on_flag = [s \in Slots |-> 0],
            !.ch_out = [i \in 0..14 |-> 0],
            !.calls = Append(@, <<"ADPCM_reset">>)]

(* ------------------------------- rendering ----------------------------- *)
mrand(seed) ==
  LET a == HIGHBITS(seed, 15)
      b == Bit(seed, 12)
  IN  (IF a = b THEN 0 ELSE 1) + ((seed * 2) % 65536)

(* calc_phase without the mask  & (DP_WIDTH - 1) *)
calc_phase_noWrap(slot, lfo) ==
  [slot EXCEPT
     !.phase = @ + (IF slot.patch.PM # 0
                    THEN HIGHBITS(slot.dphase * lfo.pm, PM_AMP_BITS)
                    ELSE slot.dphase),
     !.pgout = HIGHBITS(slot.phase
                        + (IF slot.patch.PM # 0
                           THEN HIGHBITS(slot.dphase * lfo.pm, PM_AMP_BITS)
                           ELSE slot.dphase), DP_BASE_BITS) % PG_WIDTH]

(* calc_phase: the slot with its phase advanced; pgout is read off the result.
   dphase * lfo_pm stays below 2^31 for every table bank of the model, so the
   uint32_t product does not wrap. *)
calc_phase(slot, lfo) ==
  LET inc == IF slot.patch.PM # 0
             THEN HIGHBITS(slot.dphase * lfo.pm, PM_AMP_BITS)
             ELSE slot.dphase
      ph == (slot.phase + inc) % DP_WIDTH
  IN  [slot EXCEPT !.phase = ph, !.pgout = HIGHBITS(ph, DP_BASE_BITS)]

(* the switch of calc_envelope with a SUSHOLD case that does not test the
   envelope-type flag *)
eg_advance_holdWithoutFlag(slot, adv, t) ==
  CASE slot.eg_mode = ATTACK ->
         IF Bit(adv, EG_DP_BITS) = 1
         THEN [s |-> UPDATE_EG([slot EXCEPT !.eg_phase = 0, !.eg_mode = DECAY], t),
               e |-> 0]
         ELSE [s |-> [slot EXCEPT !.eg_phase = adv],
               e |-> AR_ADJUST_TABLE(HIGHBITS(adv, EG_DP_BITS - EG_BITS))]
    [] slot.eg_mode = DECAY ->
         IF adv >= SL(slot.patch.SL)
         THEN [s |-> UPDATE_EG([slot EXCEPT
                                  !.eg_phase = SL(slot.patch.SL),
                                  !.eg_mode = IF slot.patch.EG # 0 THEN SUSHOLD
                                              ELSE SUSTINE], t),
               e |-> HIGHBITS(SL(slot.patch.SL), EG_DP_BITS - EG_BITS)]
         ELSE [s |-> [slot EXCEPT !.eg_phase = adv],
               e |-> HIGHBITS(adv, EG_DP_BITS - EG_BITS)]
    [] slot.eg_mode = SUSHOLD ->
         [s |-> slot,
          e |-> HIGHBITS(slot.eg_phase, EG_DP_BITS - EG_BITS)]
    [] slot.eg_mode \in {SUSTINE, RELEASE} ->
         IF HIGHBITS(adv, EG_DP_BITS - EG_BITS) >= 2^EG_BITS
         THEN [s |-> [slot EXCEPT !.eg_phase = adv, !.eg_mode = FINISH],
               e |-> 2^EG_BITS - 1]
         ELSE [s |-> [slot EXCEPT !.eg_phase = adv],
               e |-> HIGHBITS(adv, EG_DP_BITS - EG_BITS)]
    [] OTHER -> [s |-> slot, e |-> 2^EG_BITS - 1]

(* the switch of calc_envelope with an attack that ends in SUSTINE *)
eg_advance_attackToSustain(slot, adv, t) ==
  CASE slot.eg_mode = ATTACK ->
         IF Bit(adv, EG_DP_BITS) = 1
         THEN [s |-> UPDATE_EG([slot EXCEPT !.eg_phase = 0, !.eg_mode = SUSTINE], t),
               e |-> 0]
         ELSE [s |-> [slot EXCEPT !.eg_phase = adv],
               e |-> AR_ADJUST_TABLE(HIGHBITS(adv, EG_DP_BITS - EG_BITS))]
    [] slot.eg_mode = DECAY ->
         IF adv >= SL(slot.patch.SL)
         THEN [s |-> UPDATE_EG([slot EXCEPT
                                  !.eg_phase = SL(slot.patch.SL),
                                  !.eg_mode = IF slot.patch.EG # 0 THEN SUSHOLD
                                              ELSE SUSTINE], t),
               e |-> HIGHBITS(SL(slot.patch.SL), EG_DP_BITS - EG_BITS)]
         ELSE [s |-> [slot EXCEPT !.eg_phase = adv],
               e |-> HIGHBITS(adv, EG_DP_BITS - EG_BITS)]
    [] slot.eg_mode = SUSHOLD ->
         [s |-> IF slot.patch.EG = 0
                THEN UPDATE_EG([slot EXCEPT !.eg_mode = SUSTINE], t)
                ELSE slot,
          e |-> HIGHBITS(slot.eg_phase, EG_DP_BITS - EG_BITS)]
    [] slot.eg_mode \in {SUSTINE, RELEASE} ->
         IF HIGHBITS(adv, EG_DP_BITS - EG_BITS) >= 2^EG_BITS
         THEN [s |-> [slot EXCEPT !.eg_phase = adv, !.eg_mode = FINISH],
               e |-> 2^EG_BITS - 1]
         ELSE [s |-> [slot EXCEPT !.eg_phase = adv],
               e |-> HIGHBITS(adv, EG_DP_BITS - EG_BITS)]
    [] OTHER -> [s |-> slot, e |-> 2^EG_BITS - 1]

(* calc_envelope, the switch on eg_mode: [s, e], the slot after the step and
   the value of the local egout; adv is eg_phase + eg_dphase *)
eg_advance(slot, adv, t) ==
  CASE slot.eg_mode = ATTACK ->
         IF Bit(adv, EG_DP_BITS) = 1
         THEN [s |-> UPDATE_EG([slot EXCEPT !.eg_phase = 0, !.eg_mode = DECAY], t),
               e |-> 0]
         ELSE [s |-> [slot EXCEPT !.eg_phase = adv],
               e |-> AR_ADJUST_TABLE(HIGHBITS(adv, EG_DP_BITS - EG_BITS))]
    [] slot.eg_mode = DECAY ->
         IF adv >= SL(slot.patch.SL)
         THEN [s |-> UPDATE_EG([slot EXCEPT
                                  !.eg_phase = SL(slot.patch.SL),
                                  !.eg_mode = IF slot.patch.EG # 0 THEN SUSHOLD
                                              ELSE SUSTINE], t),
               e |-> HIGHBITS(SL(slot.patch.SL), EG_DP_BITS - EG_BITS)]
         ELSE [s |-> [slot EXCEPT !.eg_phase = adv],
               e |-> HIGHBITS(adv, EG_DP_BITS - EG_BITS)]
    [] slot.eg_mode = SUSHOLD ->
         [s |-> IF slot.patch.EG = 0
                THEN UPDATE_EG([slot EXCEPT !.eg_mode = SUSTINE], t)
                ELSE slot,
          e |-> HIGHBITS(slot.eg_phase, EG_DP_BITS - EG_BITS)]
    [] slot.eg_mode \in {SUSTINE, RELEASE} ->
         IF HIGHBITS(adv, EG_DP_BITS - EG_BITS) >= 2^EG_BITS
         THEN [s |-> [slot EXCEPT !.eg_phase = adv, !.eg_mode = FINISH],
               e |-> 2^EG_BITS - 1]
         ELSE [s |-> [slot EXCEPT !.eg_phase = adv],
               e |-> HIGHBITS(adv, EG_DP_BITS - EG_BITS)]
    [] OTHER -> [s |-> slot, e |-> 2^EG_BITS - 1]

(* calc_envelope, after the switch: total level and tremolo are added, the
   sum is clipped to DB_MUTE - 1 *)
eg_level(e, slot, lfo) ==
  LET lev == IF slot.patch.AM # 0
             THEN ALIGN_EG_DB(e + slot.tll) + lfo.am
             ELSE ALIGN_EG_DB(e + slot.tll)
  IN  IF lev >= DB_MUTE THEN DB_MUTE - 1 ELSE lev

(* calc_envelope with r the result of its switch: the slot after the
   envelope step, the returned value stored in egout (both callers store it
   there) *)
eg_store(r, lfo) == [r.s EXCEPT !.egout = eg_level(r.e, r.s, lfo)]

calc_envelope(slot, lfo, t) ==
  eg_store(eg_advance(slot, slot.eg_phase + slot.eg_dphase, t), lfo)

(* wave2_4pi(e) is e, wave2_8pi(e) is e << 1 (SLOT_AMP_BITS - PG_BITS = 1) *)
wave2_4pi(e) == e
wave2_8pi(e) == e * 2

(* calc_slot_car after calc_envelope and calc_phase gave s: [slot, out] *)
car_out(s, fm) ==
  [slot |-> s,
   out |-> IF s.egout >= DB_MUTE - 1 THEN 0
           ELSE DB2LIN_TABLE(fullsintable((s.pgout + wave2_8pi(fm)) % PG_WIDTH)
                             + s.egout)]

(* calc_slot_car: [slot, out], the carrier after the step and its sample *)
calc_slot_car(slot, fm, lfo, t) ==
  car_out(calc_phase(calc_envelope(slot, lfo, t), lfo), fm)

(* calc_slot_mod after calc_envelope and calc_phase turned slot into s: the
   new output[0] *)
mod_out(s, slot) ==
  IF s.egout >= DB_MUTE - 1 THEN 0
  ELSE IF s.patch.FB # 0
  THEN DB2LIN_TABLE(fullsintable(
         (s.pgout + HIGHBITS(wave2_4pi(slot.feedback), 7 - s.patch.FB))
         % PG_WIDTH) + s.egout)
  ELSE DB2LIN_TABLE(fullsintable(s.pgout) + s.egout)

(* calc_slot_mod, the history shift and the feedback average *)
mod_store(s, slot, o0) ==
  [s EXCEPT !.output = [k \in 0..1 |-> IF k = 0 THEN o0 ELSE slot.output[0]],
            !.feedback = HIGHBITS(slot.output[0] + o0, 1)]

mod_step(s, slot) == mod_store(s, slot, mod_out(s, slot))

(* calc_slot_mod: the modulator after the step; the returned value is its
   feedback field *)
calc_slot_mod(slot, lfo, t) ==
  mod_step(calc_phase(calc_envelope(slot, lfo, t), lfo), slot)

(* the sum of the 15 accumulators, converted to int16_t by the cast *)
mix_output(ch_out) ==
  LET RECURSIVE Sum(_)
      Sum(i) == IF i = 0 THEN ch_out[0] ELSE Sum(i - 1) + ch_out[i]
  IN  ToInt16(Sum(14))

(* the channel's += in the loop body, m and c the results of calc_slot_mod
   and calc_slot_car: [mod, car, acc] before the halving *)
channel_add(o, i, m, c) ==
  [mod |-> m, car |-> c.slot,
   acc |-> ToInt16(o.ch_out[i]
                   + (IF o.ch[i].alg # 0 THEN c.out + m.feedback ELSE c.out))]

(* the operator pair of channel i, m the result of calc_slot_mod *)
channel_pair(o, i, m, lfo, t) ==
  channel_add(o, i, m,
              calc_slot_car(o.slot[CAR(i)],
                            IF o.ch[i].alg # 0 THEN 0 ELSE m.feedback, lfo, t))

(* the loop body without the test of the channel mask *)
channel_step_noMask(o, i, lfo, t) ==
  IF o.slot[CAR(i)].eg_mode # FINISH
  THEN channel_pair(o, i, calc_slot_mod(o.slot[MOD(i)], lfo, t), lfo, t)
  ELSE [mod |-> o.slot[MOD(i)], car |-> o.slot[CAR(i)], acc |-> o.ch_out[i]]

(* the loop body without the test of the carrier's envelope mode *)
channel_step_noFinish(o, i, lfo, t) ==
  IF Bit(o.mask, i) = 0
  THEN channel_pair(o, i, calc_slot_mod(o.slot[MOD(i)], lfo, t), lfo, t)
  ELSE [mod |-> o.slot[MOD(i)], car |-> o.slot[CAR(i)], acc |-> o.ch_out[i]]

(* the if of the loop body on channel i *)
channel_step(o, i, lfo, t) ==
  IF Bit(o.mask, i) = 0 /\ o.slot[CAR(i)].eg_mode # FINISH
  THEN channel_pair(o, i, calc_slot_mod(o.slot[MOD(i)], lfo, t), lfo, t)
  ELSE [mod |-> o.slot[MOD(i)], car |-> o.slot[CAR(i)], acc |-> o.ch_out[i]]

(* ch_out[i] >>= 1 *)
channel_halve(r) == [r EXCEPT !.acc = HIGHBITS(@, 1)]

(* one iteration of a channel loop of OPL_calc on channel i:
   [mod, car, acc], the two operators and the accumulator after it *)
calc_channel(o, i, lfo, t) == channel_halve(channel_step(o, i, lfo, t))

(* update_ampm: the LFO phases after the step *)
update_pm_phase(o, t) == (o.pm_phase + pm_dphase(t)) % PM_DP_WIDTH
update_am_phase(o, t) == (o.am_phase + am_dphase(t)) % AM_DP_WIDTH

(* update_ampm: lfo_am and lfo_pm *)
update_ampm(o, t) ==
  [am |-> amtable(o.am_mode, HIGHBITS(update_am_phase(o, t), AM_DP_BITS - AM_PG_BITS)),
   pm |-> pmtable(o.pm_mode, HIGHBITS(update_pm_phase(o, t), PM_DP_BITS - PM_PG_BITS))]

(* the channels the two loops of OPL_calc visit *)
calc_loop(o) == IF o.rhythm_mode = 0 THEN 0..8 ELSE 0..5

(* the ADPCM accumulator after OPL_calc *)
calc_adpcm(o, sample) ==
  HIGHBITS(IF Bit(o.mask, OPL_MASK_PCM_BIT) = 0 THEN ToInt16(o.ch_out[14] + sample)
           ELSE o.ch_out[14], 1)

(* the 15 accumulators after OPL_calc, r the results of the channel loops *)
calc_out(o, r, sample) ==
  [i \in 0..14 |->
     IF i \in calc_loop(o) THEN r[i].acc
     ELSE IF i = 14 THEN calc_adpcm(o, sample)
     ELSE o.ch_out[i]]

(* the chip after OPL_calc, r the results of the channel loops and acc the
   accumulators *)
calc_store(o, t, r, acc) ==
  [o EXCEPT
     !.pm_phase = update_pm_phase(o, t),
     !.am_phase = update_am_phase(o, t),
     !.noise_seed = mrand(o.noise_seed),
     !.slot = [s \in Slots |->
                 IF (s \div 2) \in calc_loop(o)
                 THEN IF s % 2 = 0 THEN r[s \div 2].mod ELSE r[s \div 2].car
                 ELSE @[s]],
     !.ch_out = acc,
     !.calls = IF Bit(o.mask, OPL_MASK_PCM_BIT) = 0 THEN Append(@, <<"ADPCM_calc">>)
               ELSE @]

calc_return(o, t, r, acc, lfo) ==
  [opl |-> calc_store(o, t, r, acc),
   lfo |-> lfo,
   whitenoise |-> mrand(o.noise_seed) % 2,
   ret |-> mix_output(acc)]

calc_mix(o, t, sample, r, lfo) == calc_return(o, t, r, calc_out(o, r, sample), lfo)

calc_channels(o, t, sample, lfo) ==
  calc_mix(o, t, sample, [i \in calc_loop(o) |-> calc_channel(o, i, lfo, t)], lfo)

(* OPL_calc with `sample` the value ADPCM_calc returns when it is called:
   [opl, lfo, whitenoise, ret] *)
OPL_calc(o, t, sample) == calc_channels(o, t, sample, update_ampm(o, t))

(* ---------------------------- register writes -------------------------- *)
(* stbl with offset 6 addressing slot 5, as offset 5 does *)
stbl_offsetSixAssigned ==
  <<0, 2, 4, 1, 3, 5, 5, -1,
    6, 8, 10, 7, 9, 11, -1, -1,
    12, 14, 16, 13, 15, 17, -1, -1,
    -1, -1, -1, -1, -1, -1, -1, -1>>

stbl ==
  <<0, 2, 4, 1, 3, 5, -1, -1,
    6, 8, 10, 7, 9, 11, -1, -1,
    12, 14, 16, 13, 15, 17, -1, -1,
    -1, -1, -1, -1, -1, -1, -1, -1>>

(* opl->reg[reg] = data, as the set of its outcomes.  The array is declared
   reg[0xff]: indices 0..254.  Index 255 is one past its end, and the access
   is undefined: on the usual layout the byte lands in the padding between reg
   and slot_on_flag (the field pad), a bounds-checked build traps. *)
store_reg(o, reg, data) ==
  IF reg \in DOMAIN o.reg THEN {[o EXCEPT !.reg[reg] = data]}
  ELSE {[o EXCEPT !.pad = data], ABORTED}

(* the branch of OPL_writeReg for a slot register (0x20..0x9f) *)
write_slot(o, t, reg, data) ==
  LET base == IF reg < 64 THEN 32 ELSE IF reg < 96 THEN 64 ELSE IF reg < 128 THEN 96 ELSE 128
      s == stbl[(reg - base) + 1]
  IN  IF s < 0 THEN o
      ELSE IF reg < 64
      THEN [o EXCEPT !.slot[s] =
              UPDATE_ALL([@ EXCEPT !.patch.AM = Bit(data, 7),
                                   !.patch.PM = Bit(data, 6),
                                   !.patch.EG = Bit(data, 5),
                                   !.patch.KR = Bit(data, 4),
                                   !.patch.ML = data % 16], t)]
      ELSE IF reg < 96
      THEN [o EXCEPT !.slot[s] =
              UPDATE_ALL([@ EXCEPT !.patch.KL = HIGHBITS(data, 6) % 4,
                                   !.patch.TL = data % 64], t)]
      ELSE IF reg < 128
      THEN [o EXCEPT !.slot[s] =
              UPDATE_EG([@ EXCEPT !.patch.AR = HIGHBITS(data, 4) % 16,
                                  !.patch.DR = data % 16], t)]
      ELSE [o EXCEPT !.slot[s] =
              UPDATE_EG([@ EXCEPT !.patch.SL = HIGHBITS(data, 4) % 16,
                                  !.patch.RR = data % 16], t)]

(* the branch for 0xa0..0xa8 with the frequency number taken from the
   written byte alone *)
write_fnum_lowByteOnly(o, t, reg, data) ==
  LET c == reg - 160
      o1 == setFnumber(o, c, data)
  IN  [o1 EXCEPT !.slot[CAR(c)] = UPDATE_ALL(@, t),
                 !.slot[MOD(c)] = UPDATE_ALL(@, t)]

(* the branch for 0xa0..0xa8 *)
write_fnum(o, t, reg, data) ==
  LET c == reg - 160
      o1 == setFnumber(o, c, data + (o.reg[reg + 16] % 4) * 256)
  IN  [o1 EXCEPT !.slot[CAR(c)] = UPDATE_ALL(@, t),
                 !.slot[MOD(c)] = UPDATE_ALL(@, t)]

(* the key decision taken from the level of the written bit alone *)
write_key_byLevel(o, c, reg, data) ==
  IF Bit(data, 5) = 1 THEN keyOn(o, c) ELSE keyOff(o, c)

(* the key decision of the branch for 0xb0..0xb8 *)
write_key(o, c, reg, data) ==
  IF Bit(o.reg[reg], 5) = 0 /\ Bit(data, 5) = 1 THEN keyOn(o, c)
  ELSE IF Bit(data, 5) = 0 THEN keyOff(o, c)
  ELSE o

(* the branch for 0xb0..0xb8 *)
write_block(o, t, reg, data) ==
  LET c == reg - 176
      o1 == setFnumber(o, c, (data % 4) * 256 + o.reg[reg - 16])
      o2 == setBlock(o1, c, HIGHBITS(data, 2) % 8)
      o3 == write_key(o2, c, reg, data)
  IN  [o3 EXCEPT !.slot[MOD(c)] = UPDATE_ALL(@, t),
                 !.slot[CAR(c)] = UPDATE_ALL(@, t)]

(* the branch for 0xc0..0xc8 *)
write_fb(o, reg, data) ==
  LET c == reg - 192
  IN  [o EXCEPT !.slot[c * 2].patch.FB = HIGHBITS(data, 1) % 8,
                !.ch[c].alg = data % 2]

(* the branch for 0xbd *)
write_bd(o, data) ==
  [o EXCEPT !.rhythm_mode = Bit(data, 5) * 32,
            !.am_mode = Bit(data, 7),
            !.pm_mode = Bit(data, 6)]

(* the branches of OPL_writeReg, before the store into the register image *)
write_branch(o, t, reg, data) ==
  IF 7 <= reg /\ reg <= 18
  THEN [o EXCEPT !.calls = Append(@, <<"ADPCM_writeReg", reg, data>>)]
  ELSE IF 32 <= reg /\ reg < 160 THEN write_slot(o, t, reg, data)
  ELSE IF 160 <= reg /\ reg < 169 THEN write_fnum(o, t, reg, data)
  ELSE IF 176 <= reg /\ reg < 185 THEN write_block(o, t, reg, data)
  ELSE IF 192 <= reg /\ reg < 201 THEN write_fb(o, reg, data)
  ELSE IF reg = 189 THEN write_bd(o, data)
  ELSE o

(* OPL_writeReg: the set of the states it can leave the chip in *)
OPL_writeReg(o, t, reg0, data0) ==
  store_reg(write_branch(o, t, reg0 % 256, data0 % 256), reg0 % 256, data0 % 256)

(* OPL_readIO: the set of its outcomes.  opl->reg[opl->adr] with the latch at
   255 reads the byte one past the array (see store_reg). *)
ReadOk(v) == [ok |-> TRUE, val |-> v]
ReadTrap == [ok |-> FALSE, val |-> 0]
OPL_readIO(o) ==
  IF o.adr \in DOMAIN o.reg THEN {ReadOk(o.reg[o.adr])}
  ELSE {ReadOk(o.pad), ReadTrap}

(* OPL_writeIO: the set of the states it can leave the chip in *)
OPL_writeIO(o, t, adr0, val) ==
  IF (adr0 % 256) % 2 = 1 THEN OPL_writeReg(o, t, o.adr, val)
  ELSE {[o EXCEPT !.adr = val]}

(* OPL_setMask and OPL_toggleMask return the mask in force before the call,
   and 0 for a null chip *)
mask_ret(o) == IF o = NULL THEN 0 ELSE o.mask

(* OPL_toggleMask with the mask overwritten instead of toggled *)
OPL_toggleMask_set(o, m) == IF o = NULL THEN o ELSE [o EXCEPT !.mask = m]

OPL_setMask(o, m) == IF o = NULL THEN o ELSE [o EXCEPT !.mask = m]

BitXor(a, b) ==
  LET RECURSIVE X(_, _, _)
      X(x, y, n) == IF n = 0 THEN 0
                    ELSE (IF x % 2 = y % 2 THEN 0 ELSE 1) + 2 * X(x \div 2, y \div 2, n - 1)
  IN  X(a, b, 15)

OPL_toggleMask(o, m) == IF o = NULL THEN o ELSE [o EXCEPT !.mask = BitXor(@, m)]

(* ----------------------------- clock and rate --------------------------- *)
(* The statics a call of maketables or OPL_set_rate works on: s.clk and
   s.rate are the statics clk and rate, s.tables the bank the rate-dependent
   tables were last built from.
   maketables(c, r): the clock is taken over (and the tables that do not
   depend on the rate are rebuilt, whose contents do not depend on the clock
   either); internal_refresh runs only when r differs from the static rate. *)
maketables(s, c, r) ==
  [clk |-> c, rate |-> r,
   tables |-> IF r # s.rate THEN [clk |-> c, rate |-> r] ELSE s.tables]

(* OPL_set_rate(opl, r): rate = r; internal_refresh (); ADPCM_set_rate *)
OPL_set_rate(s, r) ==
  [clk |-> s.clk, rate |-> r, tables |-> [clk |-> s.clk, rate |-> r]]


(* -------------------------------- state -------------------------------- *)
VARIABLES
  opl,         \* the OPL record (with the call log of the last operation)
  tables,      \* the clock and rate the rate-dependent tables were built from
  clk, rate,   \* the statics clk and rate
  lfo,         \* the statics lfo_am and lfo_pm
  whitenoise,  \* the static whitenoise
  op,          \* the name of the last operation
  ret,         \* the value the last operation returned
  focus,       \* the channel this run's channel and slot registers address
  n,           \* how many operations have run
  ctor         \* OPL_new: its position, its locals, and what it has allocated

vars == <<opl, tables, clk, rate, lfo, whitenoise, op, ret, focus, n, ctor>>

(* the rates OPL_new is called with, the clock being 72 times the rate: the
   native rate of a 3.579552 MHz chip, and a rate so low that the LFO phases
   wrap within a few samples *)
InitRate == 49716
SlowRate == 8
InitClk(r) == 72 * r

(* bound of the exploration: operations per run *)
MaxSteps == 6

(* the channels the runs of Spec drive: the first and last channel of each of
   the two loops of OPL_calc *)
FocusChannels == {0, 5, 6, 8}

(* OPL_new without its final OPL_reset: the record as calloc and the channel
   constructors leave it *)
OPL_new_noReset(t) ==
  [adr |-> 0, out |-> 0, reg |-> [r \in 0..254 |-> 0], pad |-> 0,
   slot_on_flag |-> [s \in Slots |-> 0],
   rhythm_mode |-> 0, pm_mode |-> 0, pm_phase |-> 0,
   am_mode |-> 0, am_phase |-> 0, noise_seed |-> 0,
   slot |-> [s \in Slots |-> OPL_SLOT_reset(t)],
   ch |-> [c \in Channels |-> OPL_CH_reset],
   mask |-> 0, ch_out |-> [i \in 0..14 |-> 0],
   calls |-> <<>>]

(* OPL_new(c, r) when every allocation succeeds: calloc zeroes the record,
   the mask is cleared, OPL_reset does the rest *)
OPL_new(t) ==
  [OPL_reset([adr |-> 0, out |-> 0, reg |-> [r \in 0..254 |-> 0], pad |-> 0,
              slot_on_flag |-> [s \in Slots |-> 0],
              rhythm_mode |-> 0, pm_mode |-> 0, pm_phase |-> 0,
              am_mode |-> 0, am_phase |-> 0, noise_seed |-> 0,
              slot |-> [s \in Slots |-> OPL_SLOT_reset(t)],
              ch |-> [c \in Channels |-> OPL_CH_reset],
              mask |-> 0, ch_out |-> [i \in 0..14 |-> 0],
              calls |-> <<>>], t)
   EXCEPT !.calls = <<>>]

(* OPL_new at its entry, after maketables.  pc is its position, i and j its
   loop variables, chip the record calloc returned, built the channels
   OPL_CH_new has returned, deleted how often OPL_CH_delete was called on each
   channel, blocks the malloc blocks of channels and operators not yet freed,
   failed which of the five mallocs of OPL_CH_new failed (0: none), adpcm what
   ADPCM_new returned, result what OPL_new returned. *)
Entered ==
  [pc |-> "calloc", i |-> 0, j |-> 0, chip |-> "none", built |-> {},
   deleted |-> [c \in Channels |-> 0], blocks |-> 0, failed |-> 0,
   adpcm |-> "unset", result |-> "none"]

(* OPL_new after it has returned a chip: all nine channels built, none
   deleted, the ADPCM unit in place *)
Constructed ==
  [Entered EXCEPT !.pc = "returned", !.i = 9, !.chip = "live", !.built = Channels,
                  !.blocks = 45, !.adpcm = "unit", !.result = "chip"]

(* OPL_new after calloc has failed *)
CallocFailed == [Entered EXCEPT !.pc = "returned", !.result = "NULL"]

Init ==
  /\ ctor = Constructed
  /\ rate \in {InitRate, SlowRate}
  /\ clk = InitClk(rate)
  /\ tables = [clk |-> clk, rate |-> rate]
  /\ opl = OPL_new(tables)
  /\ lfo = [am |-> 0, pm |-> 0]
  /\ whitenoise = 0
  /\ op = "OPL_new"
  /\ ret = 0
  /\ focus \in FocusChannels
  /\ n = 0

(* the register offset (0..31) that addresses slot s *)
SlotOffset(s) == CHOOSE k \in 0..31 : stbl[k + 1] = s

(* ------------------------------- actions -------------------------------- *)
started == IF IsChip(opl) THEN [opl EXCEPT !.calls = <<>>] ELSE opl

Reset ==
  /\ n < MaxSteps
  /\ IsChip(opl) \/ opl = NULL
  /\ opl' = OPL_reset(started, tables)
  /\ op' = "OPL_reset"
  /\ ret' = 0
  /\ n' = n + 1
  /\ UNCHANGED <<tables, clk, rate, lfo, whitenoise, focus, ctor>>

(* OPL_writeReg(opl, reg, data) for a pair <<reg, data>> of W *)
WriteReg(W) ==
  /\ n < MaxSteps
  /\ IsChip(opl)
  /\ \E w \in W : opl' \in OPL_writeReg(started, tables, w[1], w[2])
  /\ op' = "OPL_writeReg"
  /\ ret' = 0
  /\ n' = n + 1
  /\ UNCHANGED <<tables, clk, rate, lfo, whitenoise, focus, ctor>>

(* OPL_calc(opl), ADPCM_calc returning a sample of S *)
Calc(S) ==
  /\ n < MaxSteps
  /\ IsChip(opl)
  /\ \E sample \in S :
        LET r == OPL_calc(started, tables, sample)
        IN  /\ opl' = r.opl
            /\ lfo' = r.lfo
            /\ whitenoise' = r.whitenoise
            /\ ret' = r.ret
  /\ op' = "OPL_calc"
  /\ n' = n + 1
  /\ UNCHANGED <<tables, clk, rate, focus, ctor>>

(* OPL_setMask(opl, m) for a mask m of M *)
SetMask(M) ==
  /\ n < MaxSteps
  /\ IsChip(opl) \/ opl = NULL
  /\ \E m \in M : opl' = OPL_setMask(started, m)
  /\ op' = "OPL_setMask"
  /\ ret' = mask_ret(opl)
  /\ n' = n + 1
  /\ UNCHANGED <<tables, clk, rate, lfo, whitenoise, focus, ctor>>

(* OPL_toggleMask(opl, m) for a mask m of M *)
ToggleMask(M) ==
  /\ n < MaxSteps
  /\ IsChip(opl) \/ opl = NULL
  /\ \E m \in M : opl' = OPL_toggleMask(started, m)
  /\ op' = "OPL_toggleMask"
  /\ ret' = mask_ret(opl)
  /\ n' = n + 1
  /\ UNCHANGED <<tables, clk, rate, lfo, whitenoise, focus, ctor>>

(* OPL_writeIO(opl, adr, val) for an address of A and a value of V *)
WriteIO(A, V) ==
  /\ n < MaxSteps
  /\ IsChip(opl)
  /\ \E a \in A, v \in V : opl' \in OPL_writeIO(started, tables, a, v)
  /\ op' = "OPL_writeIO"
  /\ ret' = 0
  /\ n' = n + 1
  /\ UNCHANGED <<tables, clk, rate, lfo, whitenoise, focus, ctor>>

(* OPL_readIO(opl) *)
ReadIO ==
  /\ n < MaxSteps
  /\ IsChip(opl)
  /\ \E r \in OPL_readIO(started) :
        /\ opl' = IF r.ok THEN started ELSE ABORTED
        /\ ret' = r.val
  /\ op' = "OPL_readIO"
  /\ n' = n + 1
  /\ UNCHANGED <<tables, clk, rate, lfo, whitenoise, focus, ctor>>

(* ------------------ Spec: rendering, masking, rhythm mode --------------- *)
(* register writes on the focus channel f: key off and key on with fnum 256,
   block 7; carrier attack rate 15; carrier PM, EG, ML 15; rhythm mode on, off *)
RenderWrites(f) ==
  {<<176 + f, 29>>, <<176 + f, 61>>,
   <<96 + SlotOffset(CAR(f)), 240>>,
   <<32 + SlotOffset(CAR(f)), 111>>,
   <<189, 32>>, <<189, 0>>}

(* the sample ADPCM_calc returns *)
AdpcmSamples == {32767}

Next ==
  \/ Reset
  \/ WriteReg(RenderWrites(focus))
  \/ Calc(AdpcmSamples)
  \/ SetMask({OPL_MASK_CH(focus) + OPL_MASK_PCM})
  \/ ToggleMask({OPL_MASK_CH(focus)})

Spec == Init /\ [][Next]_vars

(* ---------------------- SpecKeys: key on and key off -------------------- *)
(* every channel is driven; key off and two key-on values; carrier attack
   rates 14 and 15 *)
InitKeys ==
  /\ ctor = Constructed
  /\ rate = InitRate
  /\ clk = InitClk(rate)
  /\ tables = [clk |-> clk, rate |-> rate]
  /\ opl = OPL_new(tables)
  /\ lfo = [am |-> 0, pm |-> 0]
  /\ whitenoise = 0
  /\ op = "OPL_new"
  /\ ret = 0
  /\ focus \in Channels
  /\ n = 0

KeyWrites(f) ==
  {<<176 + f, 29>>, <<176 + f, 32>>, <<176 + f, 61>>,
   <<96 + SlotOffset(CAR(f)), 224>>, <<96 + SlotOffset(CAR(f)), 240>>}

NextKeys ==
  \/ Reset
  \/ WriteReg(KeyWrites(focus))
  \/ Calc({0})

SpecKeys == InitKeys /\ [][NextKeys]_vars

(* ------------------------ SpecMix: mix_output alone --------------------- *)
(* Levels the accumulators settle at: a carrier held at the positive or the
   negative peak of the sine with no attenuation adds 2047 or -2047 per
   sample, and the halving of  acc + 2047  has the fixed point 2046, that of
   acc - 2047  the fixed point -2047; the ADPCM accumulator after one sample
   of 32767 or -32768 is 16383 or -16384. *)
FmLevels == {-2047, 2046}
AdpcmLevels == {-16384, 16383}

InitMix ==
  /\ ctor = Constructed
  /\ rate = InitRate
  /\ clk = InitClk(rate)
  /\ tables = [clk |-> clk, rate |-> rate]
  /\ \E fm \in [Channels -> FmLevels], pcm \in AdpcmLevels :
        opl = [OPL_new(tables) EXCEPT
                 !.ch_out = [i \in 0..14 |-> IF i \in Channels THEN fm[i]
                                             ELSE IF i = 14 THEN pcm ELSE 0]]
  /\ lfo = [am |-> 0, pm |-> 0]
  /\ whitenoise = 0
  /\ op = "OPL_new"
  /\ ret = 0
  /\ focus = 0
  /\ n = 0

(* the return statement of OPL_calc on the accumulators of the state *)
MixOutput ==
  /\ n = 0
  /\ ret' = mix_output(opl.ch_out)
  /\ op' = "mix_output"
  /\ n' = n + 1
  /\ UNCHANGED <<opl, tables, clk, rate, lfo, whitenoise, focus, ctor>>

NextMix == MixOutput

SpecMix == InitMix /\ [][NextMix]_vars


(* ------------- SpecIO: register image, indirect access, masks ----------- *)
(* the chip of a run is the one OPL_new returned, or NULL when its calloc
   failed *)
InitIO ==
  /\ ctor \in {Constructed, CallocFailed}
  /\ rate = InitRate
  /\ clk = InitClk(rate)
  /\ tables = [clk |-> clk, rate |-> rate]
  /\ opl = IF ctor.result = "chip" THEN OPL_new(tables) ELSE NULL
  /\ lfo = [am |-> 0, pm |-> 0]
  /\ whitenoise = 0
  /\ op = "OPL_new"
  /\ ret = 0
  /\ focus = 0
  /\ n = 0

(* direct writes: an unassigned register with a value wider than a byte,
   register 0xFF, and the rhythm register *)
IoWrites == {<<1, 383>>, <<255, 165>>, <<189, 224>>}

(* OPL_writeIO: an even and an odd port; the values latch the key register
   of channel 0 (0xB0, written with 0xB0: key on) and register 0xFF *)
IoPorts == {0, 1}
IoValues == {176, 255}

IoMasks == {OPL_MASK_CH(0), OPL_MASK_CH(0) + OPL_MASK_PCM}

NextIO ==
  \/ Reset
  \/ WriteReg(IoWrites)
  \/ WriteIO(IoPorts, IoValues)
  \/ ReadIO
  \/ SetMask(IoMasks)
  \/ ToggleMask(IoMasks)

SpecIO == InitIO /\ [][NextIO]_vars

(* ----------------------- SpecNew: OPL_new step by step ------------------ *)
(* OPL_SLOT_new: malloc of the patch, then of the slot; okp and oks say which
   of them succeed.  slot: whether a slot is returned; blocks: the blocks
   still allocated when it returns. *)
OPL_SLOT_new(okp, oks) ==
  IF ~okp THEN [slot |-> FALSE, blocks |-> 0]
  ELSE IF ~oks THEN [slot |-> FALSE, blocks |-> 1 - 1]
  ELSE [slot |-> TRUE, blocks |-> 2]

(* OPL_CH_new when its fail-th malloc fails (patch and slot of mod, patch and
   slot of car, the channel; 0: none fails).  OPL_SLOT_delete frees two
   blocks. *)
OPL_CH_new(fail) ==
  LET mod == OPL_SLOT_new(fail # 1, fail # 2)
      car == OPL_SLOT_new(fail # 3, fail # 4)
  IN  IF ~mod.slot THEN [ch |-> FALSE, blocks |-> mod.blocks]
      ELSE IF ~car.slot THEN [ch |-> FALSE, blocks |-> mod.blocks + car.blocks - 2]
      ELSE IF fail = 5 THEN [ch |-> FALSE, blocks |-> mod.blocks + car.blocks - 2 - 2]
      ELSE [ch |-> TRUE, blocks |-> mod.blocks + car.blocks + 1]

(* how far the runs follow the counter i of the clean-up loop of OPL_new *)
MaxCleanup == 12

InitNew ==
  /\ ctor = Entered
  /\ rate \in {InitRate, SlowRate}
  /\ clk = InitClk(rate)
  /\ tables = [clk |-> clk, rate |-> rate]
  /\ opl = NULL
  /\ lfo = [am |-> 0, pm |-> 0]
  /\ whitenoise = 0
  /\ op = "OPL_new"
  /\ ret = 0
  /\ focus = 0
  /\ n = 0

(* opl = calloc (sizeof (OPL), 1); if (opl == NULL) return NULL; *)
NewCalloc ==
  /\ ctor.pc = "calloc"
  /\ \E ok \in BOOLEAN :
        ctor' = IF ok THEN [ctor EXCEPT !.pc = "channels", !.chip = "live", !.i = 0]
                ELSE [ctor EXCEPT !.pc = "returned", !.result = "NULL"]
  /\ UNCHANGED <<opl, tables, clk, rate, lfo, whitenoise, op, ret, focus, n>>

(* one turn of  for (i = 0; i < 9; i++)  ch[i] = OPL_CH_new ();  a failure
   enters the clean-up loop with j = i *)
NewChannel ==
  /\ ctor.pc = "channels"
  /\ ctor.i < 9
  /\ \E fail \in 0..5 :
        LET r == OPL_CH_new(fail)
        IN  ctor' = IF r.ch
                    THEN [ctor EXCEPT !.built = @ \cup {ctor.i},
                                      !.blocks = @ + r.blocks,
                                      !.i = @ + 1]
                    ELSE [ctor EXCEPT !.pc = "cleanup", !.failed = fail,
                                      !.blocks = @ + r.blocks,
                                      !.j = ctor.i]
  /\ UNCHANGED <<opl, tables, clk, rate, lfo, whitenoise, op, ret, focus, n>>

(* one turn of  for (j = i; i > 0; i++) OPL_CH_delete (ch[j - 1]);
   OPL_CH_delete frees the five blocks of the channel.  A second
   OPL_CH_delete of the same channel frees freed blocks, which is undefined:
   the allocator aborts, or the loop goes on. *)
NewCleanup ==
  /\ ctor.pc = "cleanup"
  /\ ctor.i > 0
  /\ ctor.i < MaxCleanup
  /\ \/ ctor' = [ctor EXCEPT !.deleted[ctor.j - 1] = @ + 1,
                              !.blocks = IF ctor.deleted[ctor.j - 1] = 0 THEN @ - 5 ELSE @,
                              !.i = @ + 1]
     \/ /\ ctor.deleted[ctor.j - 1] > 0
        /\ ctor' = [ctor EXCEPT !.pc = "crashed", !.result = "crash"]
  /\ UNCHANGED <<opl, tables, clk, rate, lfo, whitenoise, op, ret, focus, n>>

(* the exit of the clean-up loop:  free (opl); return NULL; *)
NewCleanupExit ==
  /\ ctor.pc = "cleanup"
  /\ ~(ctor.i > 0)
  /\ ctor' = [ctor EXCEPT !.pc = "returned", !.chip = "freed", !.result = "NULL"]
  /\ UNCHANGED <<opl, tables, clk, rate, lfo, whitenoise, op, ret, focus, n>>

(* after the channel loop: opl->adpcm = ADPCM_new (c, r), which returns a unit
   or NULL; OPL_reset (opl); return opl; *)
NewAdpcm ==
  /\ ctor.pc = "channels"
  /\ ctor.i = 9
  /\ \E a \in {"unit", "NULL"} :
        ctor' = [ctor EXCEPT !.pc = "returned", !.adpcm = a, !.result = "chip"]
  /\ opl' = OPL_new(tables)
  /\ UNCHANGED <<tables, clk, rate, lfo, whitenoise, op, ret, focus, n>>

NextNew ==
  \/ NewCalloc
  \/ NewChannel
  \/ NewCleanup
  \/ NewCleanupExit
  \/ NewAdpcm

SpecNew == InitNew /\ [][NextNew]_vars

(* ------------- SpecNote: one note held and released, with fairness ------ *)
RECURSIVE Program(_, _, _)
(* the chip after the register writes of the sequence W (none of them to
   register 0xFF, so each has a single outcome) *)
Program(o, t, W) ==
  IF W = <<>> THEN o
  ELSE Program(CHOOSE x \in OPL_writeReg(o, t, Head(W)[1], Head(W)[2]) : TRUE,
               t, Tail(W))

(* the carrier patch of the note on channel f: attack 15, decay 0; sustain 0,
   release 0; total level 0; envelope-type flag clear, key-scale rate on,
   multiple 1; frequency number 0x3FF (low byte here, high bits with the key) *)
NotePatch(f) ==
  <<<<96 + SlotOffset(CAR(f)), 240>>, <<128 + SlotOffset(CAR(f)), 0>>,
    <<64 + SlotOffset(CAR(f)), 0>>, <<32 + SlotOffset(CAR(f)), 17>>,
    <<160 + f, 255>>>>

(* key on and key off with block 7 and the high bits of the frequency number *)
NoteKeyOn(f) == <<176 + f, 63>>
NoteKeyOff(f) == <<176 + f, 31>>

(* how many operations a run of SpecNote has: a release at rate 7 with
   key-scale rate 15 takes 2341 samples *)
MaxRenders == 2400

InitNote ==
  /\ ctor = Constructed
  /\ rate = InitRate
  /\ clk = InitClk(rate)
  /\ tables = [clk |-> clk, rate |-> rate]
  /\ focus = 0
  /\ opl = [Program(OPL_new(tables), tables, NotePatch(focus)) EXCEPT !.calls = <<>>]
  /\ lfo = [am |-> 0, pm |-> 0]
  /\ whitenoise = 0
  /\ op = "OPL_new"
  /\ ret = 0
  /\ n = 0

(* the key-on write, as the first operation on the programmed chip *)
NoteOn ==
  /\ n = 0
  /\ WriteReg({NoteKeyOn(focus)})

(* the key-off write, while the key is on *)
NoteOff ==
  /\ opl.ch[focus].key_status = 1
  /\ WriteReg({NoteKeyOff(focus)})

(* OPL_calc(opl), ADPCM_calc returning 0, in a run of up to MaxRenders
   operations *)
Render ==
  /\ n > 0
  /\ n < MaxRenders
  /\ LET r == OPL_calc(started, tables, 0)
     IN  /\ opl' = r.opl
         /\ lfo' = r.lfo
         /\ whitenoise' = r.whitenoise
         /\ ret' = r.ret
  /\ op' = "OPL_calc"
  /\ n' = n + 1
  /\ UNCHANGED <<tables, clk, rate, focus, ctor>>

NextNote ==
  \/ NoteOn
  \/ NoteOff
  \/ Render

(* what tells a Render step from every other step: the operation count goes
   up by an OPL_calc *)
RenderStep ==
  /\ n > 0
  /\ n < MaxRenders
  /\ n' = n + 1
  /\ op' = "OPL_calc"

(* the host goes on calling OPL_calc: weak fairness of the Render steps (the
   steps of NextNote that are a RenderStep), which are possible exactly
   while RenderStep is *)
SpecNote == InitNote /\ [][NextNote]_vars /\ WF_n(RenderStep)

(* ---------------- SpecRate: constructions and rate changes -------------- *)
(* the clocks and rates the chips of a run are constructed with *)
RateClocks == {3579552, 7159104}
RateRates == {49716, 44100}

(* the first construction of the process: the statics clk and rate are 0
   before it, so maketables builds every table *)
InitRates ==
  /\ ctor = Constructed
  /\ clk \in RateClocks
  /\ rate \in RateRates
  /\ tables = maketables([clk |-> 0, rate |-> 0, tables |-> [clk |-> 0, rate |-> 0]],
                         clk, rate).tables
  /\ opl = OPL_new(tables)
  /\ lfo = [am |-> 0, pm |-> 0]
  /\ whitenoise = 0
  /\ op = "OPL_new"
  /\ ret = 0
  /\ focus = 0
  /\ n = 0

(* OPL_new(c, r) for a clock of C and a rate of R, every allocation
   succeeding; the run goes on with the new chip *)
NewChip(C, R) ==
  /\ n < MaxSteps
  /\ \E c \in C, r \in R :
        LET s == maketables([clk |-> clk, rate |-> rate, tables |-> tables], c, r)
        IN  /\ clk' = s.clk
            /\ rate' = s.rate
            /\ tables' = s.tables
            /\ opl' = OPL_new(s.tables)
  /\ op' = "OPL_new"
  /\ ret' = 0
  /\ n' = n + 1
  /\ UNCHANGED <<lfo, whitenoise, focus, ctor>>

(* OPL_set_rate(opl, r) for a rate of R *)
SetRate(R) ==
  /\ n < MaxSteps
  /\ IsChip(opl)
  /\ \E r \in R :
        LET s == OPL_set_rate([clk |-> clk, rate |-> rate, tables |-> tables], r)
        IN  /\ clk' = s.clk
            /\ rate' = s.rate
            /\ tables' = s.tables
            /\ opl' = [started EXCEPT !.calls = <<<<"ADPCM_set_rate", r>>>>]
  /\ op' = "OPL_set_rate"
  /\ ret' = 0
  /\ n' = n + 1
  /\ UNCHANGED <<lfo, whitenoise, focus, ctor>>

(* writes on channel f: frequency number low byte; key on with block 7 and
   frequency number bit 8; carrier attack rate 10, decay rate 5 *)
RateWrites(f) ==
  {<<160 + f, 128>>, <<176 + f, 61>>, <<96 + SlotOffset(CAR(f)), 165>>}

NextRate ==
  \/ NewChip(RateClocks, RateRates)
  \/ SetRate(RateRates)
  \/ WriteReg(RateWrites(focus))

SpecRate == InitRates /\ [][NextRate]_vars

(* ------------- SpecEnv: the envelope of one note, step by step ---------- *)
RECURSIVE Rendered(_, _, _)
(* the result of the last of k OPL_calc calls (ADPCM_calc returning 0) that
   follow the result r of an earlier one: [opl, lfo, whitenoise, ret]; the
   calls are evaluated in runs of 40, and the test has the slots and
   accumulators of each call evaluated before the next call begins *)
Rendered(r, t, k) ==
  IF k = 0 THEN r
  ELSE IF k > 40 THEN Rendered(Rendered(r, t, 40), t, k - 40)
  ELSE LET s == OPL_calc([r.opl EXCEPT !.calls = <<>>], t, 0)
       IN  IF s.opl.slot = s.opl.slot /\ s.opl.ch_out = s.opl.ch_out
           THEN Rendered(s, t, k - 1) ELSE s

(* the patch of the note on channel f.  Both operators: attack 15, decay 15,
   release 15, multiple 1, key-scale rate on.  Modulator: sustain level 1,
   envelope-type flag set; carrier: sustain level 15, flag clear.  Frequency number
   0x1FF (low byte here, high bit with the key), so that with block 7 the
   key-scale rate is 14 *)
EnvPatch(f) ==
  <<<<96 + SlotOffset(MOD(f)), 255>>, <<96 + SlotOffset(CAR(f)), 255>>,
    <<128 + SlotOffset(MOD(f)), 31>>, <<128 + SlotOffset(CAR(f)), 255>>,
    <<32 + SlotOffset(MOD(f)), 49>>, <<32 + SlotOffset(CAR(f)), 17>>,
    <<160 + f, 255>>>>

(* key on and key off with block 7 and bit 8 of the frequency number *)
EnvKeyOn(f) == <<176 + f, 61>>
EnvKeyOff(f) == <<176 + f, 29>>

(* how many renders follow the key-on before a run starts (0: the key is not
   yet on).  At key-scale rate 14 the decay adds 98304 per render: the
   modulator passes its sustain level (262144) in the 4th render, the carrier
   its own (8126464) in the 84th, and the carrier, in SUSTINE from there,
   reaches FINISH in the 87th.  The leads: none; the modulator two renders
   before its sustain level; the carrier one render before its own *)
EnvLeads == {0, 2, 83}

(* the channels the runs of SpecEnv drive: one of each loop of OPL_calc *)
EnvChannels == {0, 6}

(* the programmed chip, and the result of the lead on it *)
EnvChip(t, f) == Program(OPL_new(t), t, EnvPatch(f))
EnvLead(t, f, k) ==
  IF k = 0
  THEN [opl |-> EnvChip(t, f), lfo |-> [am |-> 0, pm |-> 0], whitenoise |-> 0, ret |-> 0]
  ELSE Rendered([opl |-> Program(EnvChip(t, f), t, <<EnvKeyOn(f)>>),
                 lfo |-> [am |-> 0, pm |-> 0], whitenoise |-> 0, ret |-> 0], t, k)

InitEnv ==
  /\ ctor = Constructed
  /\ rate = InitRate
  /\ clk = InitClk(rate)
  /\ tables = [clk |-> clk, rate |-> rate]
  /\ focus \in EnvChannels
  /\ \E k \in EnvLeads :
        LET r == EnvLead(tables, focus, k)
        IN  /\ opl = [r.opl EXCEPT !.calls = <<>>]
            /\ lfo = r.lfo
            /\ whitenoise = r.whitenoise
            /\ ret = r.ret
            /\ op = IF k = 0 THEN "OPL_writeReg" ELSE "OPL_calc"
  /\ n = 0

(* the writes of a run on channel f: key on, key off; the envelope-type flag
   of the modulator cleared and set again; rhythm mode on *)
EnvWrites(f) ==
  {EnvKeyOn(f), EnvKeyOff(f),
   <<32 + SlotOffset(MOD(f)), 17>>, <<32 + SlotOffset(MOD(f)), 49>>,
   <<189, 32>>}

NextEnv ==
  \/ WriteReg(EnvWrites(focus))
  \/ Calc({0})
  \/ ToggleMask({OPL_MASK_CH(focus)})
  \/ Reset

SpecEnv == InitEnv /\ [][NextEnv]_vars

(* ------------- SpecRegs: the register groups of one channel ------------- *)
(* operations per run of SpecRegs *)
MaxRegs == 4

(* the channels the runs of SpecRegs drive *)
RegChannels == {0, 8}

(* writes on channel f and its carrier: the frequency number's low byte, as a
   byte and with bits above the low eight set in reg and data; key off with
   block 6 and key on with block 7, as a byte and with upper bits set; each
   of the four operator registers; feedback and algorithm; register 0xFF *)
RegWrites(f) ==
  {<<160 + f, 171>>, <<416 + f, 511>>,
   <<176 + f, 27>>, <<176 + f, 62>>, <<65536 + 176 + f, 4095>>,
   <<32 + SlotOffset(CAR(f)), 255>>, <<64 + SlotOffset(CAR(f)), 255>>,
   <<96 + SlotOffset(CAR(f)), 255>>, <<128 + SlotOffset(CAR(f)), 15>>,
   <<192 + f, 15>>,
   <<255, 165>>}

InitRegs ==
  /\ ctor = Constructed
  /\ rate = InitRate
  /\ clk = InitClk(rate)
  /\ tables = [clk |-> clk, rate |-> rate]
  /\ opl = OPL_new(tables)
  /\ lfo = [am |-> 0, pm |-> 0]
  /\ whitenoise = 0
  /\ op = "OPL_new"
  /\ ret = 0
  /\ focus \in RegChannels
  /\ n = 0

NextRegs ==
  \/ n < MaxRegs /\ WriteReg(RegWrites(focus))
  \/ n < MaxRegs /\ Calc({0})
  \/ n < MaxRegs /\ Reset

SpecRegs == InitRegs /\ [][NextRegs]_vars

(* ------------- SpecSlots: the four operator register ranges ------------- *)
(* operations per run of SpecSlots *)
MaxSlotWrites == 3

(* the registers of the four ranges, 32 offsets each *)
SlotRegs == 32..159

(* the first write of a run: 0xFF (every field of the register at its
   maximum) to any register of the four ranges *)
SlotWrites == {<<reg, 255>> : reg \in SlotRegs}

(* the later writes of a run: 0xA5 to offsets 5 (assigned) and 6 (unassigned)
   of the 0x20 and of the 0x60 range *)
SlotRewrites == {<<base + k, 165>> : base \in {32, 96}, k \in {5, 6}}

NextSlots ==
  \/ n = 0 /\ WriteReg(SlotWrites)
  \/ n > 0 /\ n < MaxSlotWrites /\ WriteReg(SlotRewrites)

SpecSlots == InitRegs /\ [][NextSlots]_vars
(* ------------------------------ properties ------------------------------ *)
(* the last operation made the call or key event e *)
Called(o, e) == \E k \in 1..Len(o.calls) : o.calls[k] = e

(* bit 5 of the latched value of register 0xB0 + c *)
KeyBit(o, c) == Bit(o.reg[176 + c], 5)

(* C1: key-on of channel c is triggered exactly by a write to 0xB0 + c whose
   bit 5 is set while the latched value has bit 5 clear, and then exactly
   once; a write with bit 5 set while it is already set triggers neither
   key-on nor key-off; the write that clears a set bit triggers exactly one
   key-off. *)
C1_KeyOnExactlyOnRisingEdge ==
  [][\A c \in Channels :
       /\ Called(opl', <<"keyOn", c>>)
            <=> (op' = "OPL_writeReg" /\ KeyBit(opl, c) = 0 /\ KeyBit(opl', c) = 1)
       /\ Called(opl', <<"keyOn", c>>) => opl'.calls = << <<"keyOn", c>> >>
       /\ (KeyBit(opl, c) = 1 /\ KeyBit(opl', c) = 1)
            => ~Called(opl', <<"keyOn", c>>) /\ ~Called(opl', <<"keyOff", c>>)
       /\ (op' = "OPL_writeReg" /\ KeyBit(opl, c) = 1 /\ KeyBit(opl', c) = 0)
            => opl'.calls = << <<"keyOff", c>> >>]_vars

(* two writes with the key bit set, the second (0x3D over an image with bit 5
   set) changed the block and triggered nothing *)
C1_Witness ==
  /\ n = 2
  /\ op = "OPL_writeReg"
  /\ opl.calls = <<>>
  /\ opl.reg[176 + focus] = 61
  /\ opl.slot[CAR(focus)].patch.AR = 0
  /\ opl.slot[CAR(focus)].block = 7
  /\ opl.slot[CAR(focus)].eg_mode = ATTACK
  /\ opl.ch[focus].key_status = 1

(* C2: an operator in FINISH stays in FINISH across every operation that is
   not a key-on of its channel; in particular a write to 0xB0 + c with bit 5
   clear while the key is off leaves the mode unchanged. *)
C2_FinishLeftOnlyByKeyOn ==
  [][\A s \in Slots :
       (opl.slot[s].eg_mode = FINISH /\ ~Called(opl', <<"keyOn", s \div 2>>))
         => opl'.slot[s].eg_mode = FINISH]_vars

(* C3: after a key-on of channel c, from whatever mode, both operators are in
   ATTACK with phase 0 and envelope phase 0, the channel's key status is on,
   and each envelope increment is the attack-rate table entry of the
   operator's AR and key-scale rate index. *)
C3_KeyOnRestartsBothOperators ==
  \A c \in Channels :
    Called(opl, <<"keyOn", c>>) =>
      /\ opl.ch[c].key_status = 1
      /\ \A s \in {MOD(c), CAR(c)} :
           /\ opl.slot[s].eg_mode = ATTACK
           /\ opl.slot[s].phase = 0
           /\ opl.slot[s].eg_phase = 0
           /\ opl.slot[s].eg_dphase
                = dphaseARTable(tables, opl.slot[s].patch.AR, opl.slot[s].rks)

(* a key-on of a channel that had been rendered in attack and keyed off: the
   carrier is taken from RELEASE, with attack rate 14 *)
C3_Witness ==
  /\ Called(opl, <<"keyOn", focus>>)
  /\ opl.slot[CAR(focus)].patch.AR = 14
  /\ opl.slot[CAR(focus)].egout \notin {0, DB_MUTE - 1}
  /\ opl.slot[CAR(focus)].eg_dphase \notin {0, EG_DP_WIDTH}

(* C4 as stated: key-off takes an operator in ATTACK to RELEASE with envelope
   phase AR_ADJUST_TABLE[eg_phase >> 14] << 14, which is below 2^23 for every
   attack position, position 0 included; in any other mode it sets RELEASE
   and leaves the envelope phase unchanged. *)
C4_KeyOffBelowCeiling ==
  [][\A c \in Channels :
       Called(opl', <<"keyOff", c>>) =>
         \A s \in {MOD(c), CAR(c)} :
           /\ opl'.slot[s].eg_mode = RELEASE
           /\ IF opl.slot[s].eg_mode = ATTACK
              THEN /\ opl'.slot[s].eg_phase
                        = AR_ADJUST_TABLE(opl.slot[s].eg_phase \div 2^14) * 2^14
                   /\ opl'.slot[s].eg_phase < 2^23
              ELSE opl'.slot[s].eg_phase = opl.slot[s].eg_phase]_vars

(* C4, amended: key-off takes an operator in ATTACK to RELEASE with envelope
   phase AR_ADJUST_TABLE[eg_phase >> 14] << 14; that value is below 2^23 for
   every attack position from 1 to 511 and is exactly 2^23 at position 0; in
   any other mode key-off sets RELEASE and leaves the envelope phase
   unchanged. *)
C4_KeyOffConversion ==
  [][/\ \A p \in 1..(2^EG_BITS - 1) : AR_ADJUST_TABLE(p) * 2^14 < 2^23
     /\ AR_ADJUST_TABLE(0) * 2^14 = 2^23
     /\ \A c \in Channels :
          Called(opl', <<"keyOff", c>>) =>
            \A s \in {MOD(c), CAR(c)} :
              /\ opl'.slot[s].eg_mode = RELEASE
              /\ IF opl.slot[s].eg_mode = ATTACK
                 THEN /\ opl'.slot[s].eg_phase
                           = AR_ADJUST_TABLE(opl.slot[s].eg_phase \div 2^14) * 2^14
                      /\ (opl.slot[s].eg_phase \div 2^14 >= 1)
                           => opl'.slot[s].eg_phase < 2^23
                      /\ (opl.slot[s].eg_phase \div 2^14 = 0)
                           => opl'.slot[s].eg_phase = 2^23
                 ELSE opl'.slot[s].eg_phase = opl.slot[s].eg_phase]_vars

(* a key-off that found the carrier in ATTACK past position 0 (its last
   envelope output, shifted, is its envelope phase) and the modulator in
   ATTACK at position 0 *)
C4_Witness ==
  /\ Called(opl, <<"keyOff", focus>>)
  /\ opl.slot[CAR(focus)].eg_mode = RELEASE
  /\ opl.slot[CAR(focus)].eg_phase > 0
  /\ opl.slot[CAR(focus)].eg_phase < 2^23
  /\ opl.slot[CAR(focus)].eg_phase = opl.slot[CAR(focus)].egout * 2^14
  /\ opl.slot[MOD(focus)].eg_mode = RELEASE
  /\ opl.slot[MOD(focus)].egout = DB_MUTE - 1
  /\ opl.slot[MOD(focus)].eg_phase = 2^23

(* C5: while bit i of the mask is set, OPL_calc leaves both operators of
   channel i as they are (phase, envelope phase, envelope mode, output
   history), and while the PCM bit is set it does not call ADPCM_calc;
   OPL_setMask and OPL_toggleMask change no operator. *)
C5_MaskedChannelFrozen ==
  [][/\ \A i \in Channels :
          (op' = "OPL_calc" /\ Bit(opl.mask, i) = 1)
            => /\ opl'.slot[MOD(i)] = opl.slot[MOD(i)]
               /\ opl'.slot[CAR(i)] = opl.slot[CAR(i)]
     /\ (op' = "OPL_calc" /\ Bit(opl.mask, OPL_MASK_PCM_BIT) = 1)
          => ~Called(opl', <<"ADPCM_calc">>)
     /\ (op' \in {"OPL_setMask", "OPL_toggleMask"}) => opl'.slot = opl.slot]_vars

(* a render with the channel and the PCM bit masked, the carrier keyed on
   with the instant attack rate and still at the start of its attack *)
C5_Witness ==
  /\ op = "OPL_calc"
  /\ Bit(opl.mask, focus) = 1
  /\ Bit(opl.mask, OPL_MASK_PCM_BIT) = 1
  /\ opl.calls = <<>>
  /\ opl.ch[focus].key_status = 1
  /\ opl.slot[CAR(focus)].eg_mode = ATTACK
  /\ opl.slot[CAR(focus)].eg_dphase = EG_DP_WIDTH
  /\ opl.slot[CAR(focus)].eg_phase = 0

(* C6: after an OPL_calc with bit i of the mask set, channel i contributes
   exactly 0 to the returned sample. *)
C6_MaskedChannelSilent ==
  \A i \in Channels :
    (op = "OPL_calc" /\ Bit(opl.mask, i) = 1) => opl.ch_out[i] = 0

(* C7 as stated: OPL_calc skips every operator in FINISH: its phase, envelope
   phase and output history are unchanged, its envelope output is the
   maximum attenuation and its channel contributes 0 to the sample. *)
C7_FinishOperatorSkipped ==
  [][op' = "OPL_calc" =>
       \A s \in Slots :
         opl.slot[s].eg_mode = FINISH =>
           /\ opl'.slot[s].phase = opl.slot[s].phase
           /\ opl'.slot[s].eg_phase = opl.slot[s].eg_phase
           /\ opl'.slot[s].output = opl.slot[s].output
           /\ opl'.slot[s].feedback = opl.slot[s].feedback
           /\ calc_envelope(opl.slot[s], lfo', tables).egout = DB_MUTE - 1
           /\ opl'.ch_out[s \div 2] = 0]_vars

(* C7, amended: OPL_calc skips every channel whose carrier is in FINISH: both
   operators are unchanged and nothing is added to the channel's
   accumulator, which is halved (left as it is for channels 6..8 in rhythm
   mode).  An operator in FINISH stays in FINISH with its envelope phase
   unchanged and its envelope output is the maximum attenuation; when it is
   processed (a modulator whose carrier is not in FINISH) its sample is 0. *)
C7_FinishCarrierSkipped ==
  [][op' = "OPL_calc" =>
       /\ \A c \in Channels :
            opl.slot[CAR(c)].eg_mode = FINISH =>
              /\ opl'.slot[MOD(c)] = opl.slot[MOD(c)]
              /\ opl'.slot[CAR(c)] = opl.slot[CAR(c)]
              /\ opl'.ch_out[c] = IF opl.rhythm_mode # 0 /\ c >= 6
                                  THEN opl.ch_out[c]
                                  ELSE opl.ch_out[c] \div 2
       /\ \A s \in Slots :
            opl.slot[s].eg_mode = FINISH =>
              /\ opl'.slot[s].eg_mode = FINISH
              /\ opl'.slot[s].eg_phase = opl.slot[s].eg_phase
              /\ calc_envelope(opl.slot[s], lfo', tables).egout = DB_MUTE - 1
              /\ \/ opl'.slot[s] = opl.slot[s]
                 \/ /\ opl'.slot[s].egout = DB_MUTE - 1
                    /\ opl'.slot[s].output[0] = 0]_vars

(* three renders after a key-on, a key-off between the first and the second:
   the modulator reached FINISH in the second and was processed in the
   third, beside a carrier in RELEASE; every other channel was skipped *)
C7_Witness ==
  /\ op = "OPL_calc"
  /\ opl.slot[MOD(focus)].eg_mode = FINISH
  /\ opl.slot[CAR(focus)].eg_mode = RELEASE
  /\ opl.slot[MOD(focus)].dphase > 0
  /\ opl.slot[MOD(focus)].phase = 3 * opl.slot[MOD(focus)].dphase
  /\ opl.slot[MOD(focus)].egout = DB_MUTE - 1
  /\ \E c \in Channels : c # focus /\ opl.slot[CAR(c)].eg_mode = FINISH

(* C8 as stated: every operator's phase is below 2^19 and its envelope phase
   below 2^23, both LFO phases are below 2^16, in every state. *)
C8_PhasesWithinWidth ==
  /\ \A s \in Slots :
       /\ opl.slot[s].phase < DP_WIDTH
       /\ opl.slot[s].eg_phase < EG_DP_WIDTH
  /\ opl.pm_phase < PM_DP_WIDTH
  /\ opl.am_phase < AM_DP_WIDTH

(* C8, amended: every operator's phase is below 2^19 and both LFO phases
   are below 2^16 in every state; the envelope phase is below 2^23 while the
   operator is in ATTACK, DECAY, SUSHOLD or SUSTINE, and is 2^23 or more in
   FINISH (reset puts it at exactly 2^23). *)
C8_PhasesWithinWidthWhileSounding ==
  /\ \A s \in Slots :
       /\ opl.slot[s].phase >= 0
       /\ opl.slot[s].phase < DP_WIDTH
       /\ opl.slot[s].eg_phase >= 0
       /\ opl.slot[s].eg_mode \in {ATTACK, DECAY, SUSHOLD, SUSTINE}
            => opl.slot[s].eg_phase < EG_DP_WIDTH
       /\ opl.slot[s].eg_mode = FINISH => opl.slot[s].eg_phase >= EG_DP_WIDTH
       /\ op = "OPL_reset" => opl.slot[s].eg_phase = EG_DP_WIDTH
  /\ opl.pm_phase >= 0
  /\ opl.pm_phase < PM_DP_WIDTH
  /\ opl.am_phase >= 0
  /\ opl.am_phase < AM_DP_WIDTH

(* a render in which the carrier's phase (multiple 15, vibrato on) and the
   vibrato LFO's phase both wrapped, the carrier holding its sustain *)
C8_Witness ==
  /\ op = "OPL_calc"
  /\ opl.slot[CAR(focus)].eg_mode = SUSHOLD
  /\ opl.slot[CAR(focus)].patch.PM = 1
  /\ opl.slot[CAR(focus)].dphase = 245760
  /\ opl.slot[CAR(focus)].phase > 0
  /\ opl.slot[CAR(focus)].phase < 240000
  /\ opl.pm_phase < pm_dphase(tables)
  /\ opl.pm_phase > 0

(* the sum of the accumulators, and its saturation to int16_t *)
SumOutputs(acc) ==
  acc[0] + acc[1] + acc[2] + acc[3] + acc[4] + acc[5] + acc[6] + acc[7]
  + acc[8] + acc[9] + acc[10] + acc[11] + acc[12] + acc[13] + acc[14]
Saturate16(x) == IF x > 32767 THEN 32767 ELSE IF x < -32768 THEN -32768 ELSE x

(* C9: the value OPL_calc returns is the sum of the 15 accumulators saturated
   to the range of int16_t. *)
C9_ReturnIsSaturatedSum ==
  op = "mix_output" => ret = Saturate16(SumOutputs(opl.ch_out))

(* C10: bit 5 of a write to 0xBD sets and clears rhythm_mode, and while it is
   set OPL_calc still processes channels 6..8 exactly as it processes
   channels 0..5. *)
C10_RhythmChannelsStayMelodic ==
  [][/\ (opl'.rhythm_mode # 0) <=> (Bit(opl'.reg[189], 5) = 1)
     /\ op' = "OPL_calc" =>
          \A i \in 6..8 :
            /\ opl'.slot[MOD(i)] = calc_channel(opl, i, lfo', tables).mod
            /\ opl'.slot[CAR(i)] = calc_channel(opl, i, lfo', tables).car
            /\ opl'.ch_out[i] = calc_channel(opl, i, lfo', tables).acc]_vars

(* ------------------------------------------------------------------------ *)
(* the chip without its register image, the byte behind the image and the log
   of the calls into the ADPCM unit *)
BesidesImage(o) ==
  [o EXCEPT !.reg = [r \in DOMAIN o.reg |-> 0], !.pad = 0, !.calls = <<>>]

(* the register ranges OPL_writeReg has a branch for *)
Assigned(reg) ==
  \/ 7 <= reg /\ reg <= 18
  \/ 32 <= reg /\ reg < 169
  \/ 176 <= reg /\ reg < 185
  \/ reg = 189
  \/ 192 <= reg /\ reg < 201

(* C11: OPL_writeReg(reg, value), for every reg in 0..255, stores value & 0xFF
   in the register image entry of reg; OPL_readIO with the latch at reg then
   returns that byte; and for a register outside every assigned range
   (0xFF included) nothing else in the chip changes. *)
C11_WriteLatchesByte ==
  [][\A w \in IoWrites :
        WriteReg({w}) =>
          /\ IsChip(opl')
          /\ OPL_readIO([opl' EXCEPT !.adr = w[1] % 256]) = {ReadOk(w[2] % 256)}
          /\ ~Assigned(w[1] % 256) => BesidesImage(opl') = BesidesImage(opl)]_vars

(* the byte OPL_readIO finds at index r of opl->reg when the access is not
   trapped *)
ImageByte(o, r) == IF r \in DOMAIN o.reg THEN o.reg[r] ELSE o.pad

(* C12: OPL_writeIO to an even address sets the address latch to the written
   value and changes nothing else; to an odd address it has exactly the effect
   of OPL_writeReg(latch, value) and leaves the latch as it is; OPL_readIO
   returns the register-image byte of the latched register and changes no
   state. *)
C12_PortsMatchRegisterAccess ==
  [][/\ \A v \in IoValues :
          /\ WriteIO({0}, {v}) => opl' = [started EXCEPT !.adr = v]
          /\ WriteIO({1}, {v}) =>
                /\ opl' \in OPL_writeReg(started, tables, opl.adr, v)
                /\ IsChip(opl') => opl'.adr = opl.adr
     /\ ReadIO =>
          /\ opl' = started
          /\ ret' = ImageByte(opl, opl.adr)]_vars

(* the chip without its mask and the log of the calls into the ADPCM unit *)
BesidesMask(o) == [o EXCEPT !.mask = 0, !.calls = <<>>]

(* C13: OPL_setMask(m) returns the mask in force before the call and makes the
   mask m; OPL_toggleMask(m) returns the mask in force before the call and
   makes the mask the bitwise exclusive or of the old mask and m, so that a
   second OPL_toggleMask(m) restores the mask; neither changes anything else
   in the chip; on a null chip both return 0. *)
C13_MaskCalls ==
  [][\A m \in IoMasks :
        /\ SetMask({m}) =>
              IF opl = NULL THEN ret' = 0 /\ opl' = NULL
              ELSE /\ ret' = opl.mask
                   /\ opl'.mask = m
                   /\ BesidesMask(opl') = BesidesMask(opl)
        /\ ToggleMask({m}) =>
              IF opl = NULL THEN ret' = 0 /\ opl' = NULL
              ELSE /\ ret' = opl.mask
                   /\ opl'.mask \in 0..(2^15 - 1)
                   /\ \A b \in 0..14 :
                        Bit(opl'.mask, b) = (Bit(opl.mask, b) + Bit(m, b)) % 2
                   /\ OPL_toggleMask(opl', m).mask = opl.mask
                   /\ BesidesMask(opl') = BesidesMask(opl)]_vars

(* a toggle of the channel 0 bit on a chip whose mask had that bit and the
   PCM bit set, after other registers were written *)
C13_Witness ==
  /\ op = "OPL_toggleMask"
  /\ IsChip(opl)
  /\ ret = OPL_MASK_CH(0) + OPL_MASK_PCM
  /\ opl.mask = OPL_MASK_PCM
  /\ opl.reg[189] = 224

(* the runtime state C14 lists: operators, channels, register image, LFO
   phases, mode flags, noise seed, output accumulators, address latch *)
RuntimeState(o) ==
  [slot |-> o.slot, ch |-> o.ch, reg |-> o.reg,
   pm_phase |-> o.pm_phase, am_phase |-> o.am_phase,
   rhythm_mode |-> o.rhythm_mode, am_mode |-> o.am_mode, pm_mode |-> o.pm_mode,
   noise_seed |-> o.noise_seed, ch_out |-> o.ch_out, adr |-> o.adr]

(* C14: after OPL_reset, whatever preceded it, the runtime state of the chip
   (operators, channels, register image, LFO phases and mode flags, noise
   seed, output accumulators, address latch) is that of a chip OPL_new has
   just returned. *)
C14_ResetRestoresFreshState ==
  [][(Reset /\ IsChip(opl)) =>
        RuntimeState(opl') = RuntimeState(OPL_new(tables))]_vars

(* the state of the chip, the ADPCM unit (here: the log of the calls into it)
   left out *)
ChipState(o) == [o EXCEPT !.calls = <<>>]

(* C15: OPL_reset is idempotent: a reset directly after a reset, or directly
   after OPL_new, leaves the state of the chip (ADPCM unit excluded) as it
   is, and from every state a second reset would change nothing the first
   has not already changed. *)
C15_ResetIdempotent ==
  [][Reset =>
        /\ ChipState(OPL_reset(opl', tables)) = ChipState(opl')
        /\ op \in {"OPL_new", "OPL_reset"} => ChipState(opl') = ChipState(opl)]_vars

(* a reset of a chip that had been in use: its mask and its address latch,
   which reset leaves alone, are set *)
C15_Witness ==
  /\ op = "OPL_reset"
  /\ IsChip(opl)
  /\ opl.mask # 0
  /\ opl.adr = 176
  /\ n >= 4

(* C16: when the allocation of channel i fails in OPL_new, the constructor
   terminates, has released each of the channels 0..i-1 exactly once (none
   twice, none left), has released the chip record, and returns NULL. *)
C16_FailedChannelCleanup ==
  /\ \A c \in Channels : ctor.deleted[c] <= 1
  /\ ctor.pc # "crashed"
  /\ (ctor.pc = "returned" /\ ctor.failed # 0) =>
        /\ \A c \in ctor.built : ctor.deleted[c] = 1
        /\ ctor.blocks = 0
        /\ ctor.chip = "freed"
        /\ ctor.result = "NULL"

(* C17: OPL_new returns NULL or a fully built chip: when any allocation made
   during construction has failed (the chip record, a channel, operator or
   patch, the ADPCM unit) the result is NULL, never a chip with a missing
   component. *)
C17_NullOrComplete ==
  ctor.pc = "returned" =>
    /\ ctor.result \in {"NULL", "chip"}
    /\ ctor.result = "chip" =>
          /\ ctor.chip = "live"
          /\ ctor.built = Channels
          /\ ctor.blocks = 45
          /\ ctor.adpcm = "unit"
    /\ (ctor.chip = "none" \/ ctor.failed # 0 \/ ctor.adpcm = "NULL") =>
          ctor.result = "NULL"

(* C18: the carrier of an unmasked melodic channel with release rate 0 and the
   envelope-type flag clear (attack 15, decay 0, sustain 0, total level 0)
   is never brought to FINISH by OPL_calc while the key is on; after key-off,
   with no further register write, it reaches FINISH after finitely many
   calls of OPL_calc. *)
C18_NoteHeldUntilKeyOff ==
  /\ [](opl.ch[focus].key_status = 1 => opl.slot[CAR(focus)].eg_mode # FINISH)
  /\ (op = "OPL_writeReg" /\ opl.ch[focus].key_status = 0)
        ~> (opl.slot[CAR(focus)].eg_mode = FINISH)

(* the release has run its full length: the carrier reached FINISH in a
   render more than 2000 renders after the key-off *)
C18_Witness ==
  /\ op = "OPL_calc"
  /\ opl.ch[focus].key_status = 0
  /\ opl.slot[CAR(focus)].eg_mode = FINISH
  /\ opl.slot[CAR(focus)].eg_phase < EG_DP_WIDTH + 3584
  /\ opl.slot[CAR(focus)].eg_dphase = 3584
  /\ n > 2000

(* the frequency numbers at which the phase-increment tables are compared *)
TableFnums == {1, 384, 1023}

(* the rate-dependent tables built from a hold the values of those built from
   b: the attack and the decay/release increments, the phase increments (at
   the frequency numbers of TableFnums), the LFO increments *)
SameTables(a, b) ==
  /\ \A R \in 0..15, Rks \in 0..15 :
        /\ dphaseARTable(a, R, Rks) = dphaseARTable(b, R, Rks)
        /\ dphaseDRTable(a, R, Rks) = dphaseDRTable(b, R, Rks)
  /\ \A fnum \in TableFnums, block \in 0..7, ML \in 0..15 :
        dphaseTable(a, fnum, block, ML) = dphaseTable(b, fnum, block, ML)
  /\ pm_dphase(a) = pm_dphase(b)
  /\ am_dphase(a) = am_dphase(b)

(* C19: after any sequence of OPL_new(clock, rate) and OPL_set_rate(rate)
   calls the rate-dependent tables hold the values derived from the clock
   and the rate supplied last; a change of either alone brings them up to
   date. *)
C19_TablesFollowClockAndRate ==
  SameTables(tables, [clk |-> clk, rate |-> rate])

(* C20: when OPL_set_rate returns, the phase increment and the envelope
   increment of every operator are the entries of the rebuilt tables for its
   frequency number, block, multiple, envelope mode and rates. *)
C20_SetRateRefreshesOperators ==
  [][op' = "OPL_set_rate" =>
        \A s \in Slots :
          /\ opl'.slot[s].dphase =
                dphaseTable(tables', opl'.slot[s].fnum, opl'.slot[s].block,
                            opl'.slot[s].patch.ML)
          /\ opl'.slot[s].eg_dphase = calc_eg_dphase(opl'.slot[s], tables')]_vars

(* the derived fields of operator S are those UPDATE_ALL would give it *)
DerivedCurrent(S, t) ==
  /\ S.dphase = dphaseTable(t, S.fnum, S.block, S.patch.ML)
  /\ S.tll = tllTable(HIGHBITS(S.fnum, 6), S.block, S.patch.TL, S.patch.KL)
  /\ S.rks = rksTable(HIGHBITS(S.fnum, 9), S.block, S.patch.KR)
  /\ S.eg_mode # FINISH => S.eg_dphase = calc_eg_dphase(S, t)

(* C21: on one chip with no rate change, after every reset, register write
   and render each operator's dphase, tll and rks are the table entries for
   its frequency number, block and patch, and unless the operator is in
   FINISH its eg_dphase is the increment of its envelope mode, rates,
   envelope-type flag and rks. *)
C21_DerivedFieldsCurrent ==
  IsChip(opl) => \A s \in Slots : DerivedCurrent(opl.slot[s], tables)

(* a render that took the carrier from ATTACK to DECAY, after writes of its
   attack and decay rates and a key-on with block 7 and frequency number 512 *)
C21_Witness ==
  /\ op = "OPL_calc"
  /\ IsChip(opl)
  /\ opl.slot[CAR(focus)].eg_mode = DECAY
  /\ opl.slot[CAR(focus)].patch.DR = 15
  /\ opl.slot[CAR(focus)].fnum >= 512
  /\ opl.slot[CAR(focus)].block = 7
  /\ opl.slot[CAR(focus)].eg_dphase = dphaseDRTable(tables, 15, opl.slot[CAR(focus)].rks)
  /\ opl.slot[CAR(focus)].eg_dphase > 0
  /\ opl.slot[CAR(focus)].dphase > 0

(* every patch field of the chip is within its bit width, every operator's
   frequency number within 10 bits and its block within 3 *)
FieldsWithinWidth(o) ==
  \A s \in Slots :
    /\ o.slot[s].patch.TL \in 0..63
    /\ o.slot[s].patch.KL \in 0..3
    /\ o.slot[s].patch.ML \in 0..15
    /\ o.slot[s].patch.AR \in 0..15
    /\ o.slot[s].patch.DR \in 0..15
    /\ o.slot[s].patch.SL \in 0..15
    /\ o.slot[s].patch.RR \in 0..15
    /\ o.slot[s].patch.FB \in 0..7
    /\ o.slot[s].patch.AM \in 0..1
    /\ o.slot[s].patch.PM \in 0..1
    /\ o.slot[s].patch.EG \in 0..1
    /\ o.slot[s].patch.KR \in 0..1
    /\ o.slot[s].fnum \in 0..1023
    /\ o.slot[s].block \in 0..7

(* C22: for arbitrary 32-bit reg and data arguments of OPL_writeReg the write
   completes, and in every state each patch field is within its bit width
   and each operator has fnum <= 1023 and block <= 7. *)
C22_WritesMaskedAndComplete ==
  /\ IsChip(opl)
  /\ FieldsWithinWidth(opl)

(* C23: after any sequence of resets and register writes, for every channel c
   both operators have fnum = reg[0xA0+c] + ((reg[0xB0+c] & 3) << 8) and
   block = (reg[0xB0+c] >> 2) & 7, and the channel's key status is bit 5 of
   reg[0xB0+c]. *)
C23_FrequencyFollowsImage ==
  IsChip(opl) =>
    \A c \in Channels :
      /\ \A s \in {MOD(c), CAR(c)} :
           /\ opl.slot[s].fnum = opl.reg[160 + c] + (opl.reg[176 + c] % 4) * 256
           /\ opl.slot[s].block = HIGHBITS(opl.reg[176 + c], 2) % 8
      /\ opl.ch[c].key_status = Bit(opl.reg[176 + c], 5)

(* both halves of the frequency number written (0xAB low; high bits 3 with
   block 6 and the key off), after a key-on earlier in the run *)
C23_Witness ==
  /\ op = "OPL_writeReg"
  /\ IsChip(opl)
  /\ n >= 3
  /\ opl.reg[160 + focus] = 171
  /\ opl.reg[176 + focus] = 27
  /\ opl.slot[CAR(focus)].fnum = 939
  /\ opl.slot[MOD(focus)].block = 6
  /\ opl.ch[focus].key_status = 0
  /\ opl.slot[CAR(focus)].eg_mode = RELEASE
  /\ opl.slot[CAR(focus)].eg_phase = EG_DP_WIDTH

(* the offsets of stbl that address an operator *)
AssignedOffsets == {k \in 0..31 : stbl[k + 1] >= 0}

(* operator S without its patch and its derived fields *)
BesidesPatch(S) ==
  [S EXCEPT !.patch = ZeroPatch, !.dphase = 0, !.tll = 0, !.rks = 0, !.eg_dphase = 0]

(* C24: in each of the four operator register ranges the 18 assigned offsets
   address the 18 operators one-to-one; a write to an assigned offset changes
   the patch and the derived fields of that operator and nothing else but the
   register image byte; a write to one of the 14 unassigned offsets changes
   nothing but the register image byte. *)
C24_OffsetsAddressOperators ==
  [][/\ Cardinality(AssignedOffsets) = 18
     /\ \A s \in Slots : \E k \in AssignedOffsets : stbl[k + 1] = s
     /\ \A w \in SlotWrites \cup SlotRewrites :
          WriteReg({w}) =>
            /\ IsChip(opl')
            /\ opl'.reg = [opl.reg EXCEPT ![w[1]] = w[2]]
            /\ LET s == stbl[(w[1] % 32) + 1]
               IN  IF s < 0
                   THEN BesidesImage(opl') = BesidesImage(opl)
                   ELSE /\ BesidesImage([opl' EXCEPT !.slot[s] = opl.slot[s]])
                             = BesidesImage(opl)
                        /\ BesidesPatch(opl'.slot[s]) = BesidesPatch(opl.slot[s])
                        /\ opl'.slot[s].patch # opl.slot[s].patch
                             \/ opl.reg[w[1]] = w[2]]_vars

(* three writes: 0xFF to offset 21 of the 0x60 range, which addresses the
   last operator, then 0xA5 to the unassigned offset 6 of the 0x20 range and
   to offset 5 of the 0x60 range, which addresses operator 5 *)
C24_Witness ==
  /\ op = "OPL_writeReg"
  /\ IsChip(opl)
  /\ n = 3
  /\ opl.reg[117] = 255
  /\ opl.reg[38] = 165
  /\ opl.reg[101] = 165
  /\ opl.slot[17].patch.AR = 15
  /\ opl.slot[17].patch.ML = 0
  /\ opl.slot[5].patch.AR = 10
  /\ opl.slot[5].patch.DR = 5
  /\ \A s \in Slots \ {5, 17} : opl.slot[s].patch = ZeroPatch

(* what a processed channel i of chip o adds to its accumulator in an
   OPL_calc with the LFO values l: the carrier's sample, plus the
   modulator's when the two operators sound side by side *)
Contribution(o, i, l, t) ==
  LET m == calc_slot_mod(o.slot[MOD(i)], l, t)
  IN  IF o.ch[i].alg # 0
      THEN calc_slot_car(o.slot[CAR(i)], 0, l, t).out + m.feedback
      ELSE calc_slot_car(o.slot[CAR(i)], m.feedback, l, t).out

(* C25: every accumulator update of OPL_calc is exact: for each FM channel
   that is processed and for the ADPCM slot, the new value is
   floor((old value + this sample's contribution) / 2), for every reachable
   old value and every 16-bit ADPCM sample. *)
C25_AccumulatorsExact ==
  [][\A sample \in AdpcmSamples :
        Calc({sample}) =>
          /\ \A i \in calc_loop(opl) :
               (Bit(opl.mask, i) = 0 /\ opl.slot[CAR(i)].eg_mode # FINISH) =>
                 opl'.ch_out[i] =
                   HIGHBITS(opl.ch_out[i] + Contribution(opl, i, lfo', tables), 1)
          /\ Bit(opl.mask, OPL_MASK_PCM_BIT) = 0 =>
               opl'.ch_out[14] = HIGHBITS(opl.ch_out[14] + sample, 1)]_vars

(* OPL_calc on chip o steps the envelope of operator s: its channel is one
   the loops visit, is not masked, and has a carrier that is not in FINISH *)
Processed(o, s) ==
  /\ (s \div 2) \in calc_loop(o)
  /\ Bit(o.mask, s \div 2) = 0
  /\ o.slot[CAR(s \div 2)].eg_mode # FINISH

(* an envelope step of operator S in DECAY reaches its sustain level *)
ReachesSustain(S) ==
  /\ S.eg_mode = DECAY
  /\ S.eg_phase + S.eg_dphase >= SL(S.patch.SL)

(* operator S was put at its sustain level: the envelope phase is exactly the
   level, the mode is SUSHOLD with the envelope-type flag set, else SUSTINE *)
AtSustain(S) ==
  /\ S.eg_phase = SL(S.patch.SL)
  /\ S.eg_mode = IF S.patch.EG # 0 THEN SUSHOLD ELSE SUSTINE

(* C26 as stated: a render that brings an operator in DECAY to or past its
   sustain level puts it at the level, in SUSHOLD or SUSTINE by the
   envelope-type flag; an operator in SUSHOLD with the flag set keeps its
   envelope phase and mode over a render; one with the flag cleared is in
   SUSTINE after the next render. *)
C26_SustainHoldAnyRender ==
  [][op' = "OPL_calc" =>
       \A s \in Slots :
         /\ (Processed(opl, s) /\ ReachesSustain(opl.slot[s]))
              => AtSustain(opl'.slot[s])
         /\ (opl.slot[s].eg_mode = SUSHOLD /\ opl.slot[s].patch.EG # 0)
              => /\ opl'.slot[s].eg_mode = SUSHOLD
                 /\ opl'.slot[s].eg_phase = opl.slot[s].eg_phase
         /\ (opl.slot[s].eg_mode = SUSHOLD /\ opl.slot[s].patch.EG = 0)
              => opl'.slot[s].eg_mode = SUSTINE]_vars

(* C26, amended: as above, with the move to SUSTINE on the first render that
   steps the operator's envelope; a render that does not (the channel is
   masked, its carrier is in FINISH, or it is one of channels 6-8 while
   rhythm mode is on) leaves the operator in SUSHOLD. *)
C26_SustainHoldProcessedRender ==
  [][op' = "OPL_calc" =>
       \A s \in Slots :
         /\ (Processed(opl, s) /\ ReachesSustain(opl.slot[s]))
              => AtSustain(opl'.slot[s])
         /\ (opl.slot[s].eg_mode = SUSHOLD /\ opl.slot[s].patch.EG # 0)
              => /\ opl'.slot[s].eg_mode = SUSHOLD
                 /\ opl'.slot[s].eg_phase = opl.slot[s].eg_phase
         /\ (opl.slot[s].eg_mode = SUSHOLD /\ opl.slot[s].patch.EG = 0)
              => opl'.slot[s].eg_mode = IF Processed(opl, s) THEN SUSTINE
                                        ELSE SUSHOLD]_vars

(* the fifth render after the key-on: the modulator passed its sustain level
   in the fourth and was held, its flag was cleared, and this render moved it
   to SUSTINE with the envelope phase still at the level *)
C26_Witness ==
  /\ op = "OPL_calc"
  /\ IsChip(opl)
  /\ opl.ch[focus].key_status = 1
  /\ opl.slot[MOD(focus)].eg_mode = SUSTINE
  /\ opl.slot[MOD(focus)].patch.EG = 0
  /\ opl.slot[MOD(focus)].patch.SL = 1
  /\ opl.slot[MOD(focus)].eg_phase = SL(1)
  /\ opl.slot[MOD(focus)].dphase > 0
  /\ opl.slot[MOD(focus)].phase = 5 * opl.slot[MOD(focus)].dphase

(* the changes of envelope mode calc_envelope makes *)
RenderMoves ==
  {<<ATTACK, DECAY>>, <<DECAY, SUSHOLD>>, <<DECAY, SUSTINE>>,
   <<SUSHOLD, SUSTINE>>, <<SUSTINE, FINISH>>, <<RELEASE, FINISH>>}

(* C27: no operator is ever in SETTLE; an OPL_calc leaves an operator's mode
   as it is or makes one of the moves ATTACK->DECAY, DECAY->SUSHOLD or
   SUSTINE, SUSHOLD->SUSTINE, SUSTINE->FINISH, RELEASE->FINISH; a step that
   puts an operator into ATTACK is a write to the 0xB0 register of its
   channel that sets bit 5, one that puts it into RELEASE a write to that
   register with bit 5 clear. *)
C27_EnvelopeModeOrder ==
  /\ [](IsChip(opl) =>
          \A s \in Slots :
            opl.slot[s].eg_mode \in {ATTACK, DECAY, SUSHOLD, SUSTINE, RELEASE, FINISH})
  /\ [][IsChip(opl') =>
          \A s \in Slots :
            /\ op' = "OPL_calc" =>
                 \/ opl'.slot[s].eg_mode = opl.slot[s].eg_mode
                 \/ <<opl.slot[s].eg_mode, opl'.slot[s].eg_mode>> \in RenderMoves
            /\ (opl'.slot[s].eg_mode = ATTACK /\ opl.slot[s].eg_mode # ATTACK) =>
                 /\ op' = "OPL_writeReg"
                 /\ Bit(opl.reg[176 + s \div 2], 5) = 0
                 /\ Bit(opl'.reg[176 + s \div 2], 5) = 1
            /\ (opl'.slot[s].eg_mode = RELEASE /\ opl.slot[s].eg_mode # RELEASE) =>
                 /\ op' = "OPL_writeReg"
                 /\ Bit(opl'.reg[176 + s \div 2], 5) = 0
                 /\ opl'.ch[s \div 2].key_status = 0]_vars

(* the 87th render after the key-on: the carrier, in SUSTINE since it passed
   its sustain level in the 84th, reached FINISH with the key still on, beside
   a modulator held at its own sustain level *)
C27_Witness ==
  /\ op = "OPL_calc"
  /\ IsChip(opl)
  /\ opl.ch[focus].key_status = 1
  /\ opl.slot[CAR(focus)].eg_mode = FINISH
  /\ opl.slot[CAR(focus)].eg_phase = SL(15) + 3 * opl.slot[CAR(focus)].eg_dphase
  /\ opl.slot[CAR(focus)].eg_dphase > 0
  /\ opl.slot[MOD(focus)].eg_mode = SUSHOLD

====
